---- MODULE Spec2Model ----
(***************************************************************************)
(* Reminder scheduling engine of the classroom backend (src/scheduler.py)  *)
(* together with the request handlers that drive it.                       *)
(*                                                                         *)
(* Instants are seconds since 1970-01-01T00:00:00Z, calendar dates are     *)
(* days since 1970-01-01, times of day are seconds since local midnight.   *)
(* An aware datetime is a record [wall, off]: the wall-clock reading as    *)
(* seconds since the epoch, and the UTC offset of its tzinfo; the instant  *)
(* it denotes is wall - off.                                               *)
(***************************************************************************)
EXTENDS Integers, Sequences, FiniteSets, Bags, TLC

VARIABLES
    now,        \* datetime.now(timezone.utc)
    jobs,       \* the job store of `scheduler` (AsyncIOScheduler, in memory)
    tasks,      \* job runs submitted to the executor and not yet finished
    users,      \* table users
    groups,     \* table groups
    members,    \* table group_members
    homework,   \* table homework
    schedule,   \* table schedule
    attempts,   \* bag of outbound deliveries started (bot.send_message)
    outcome,    \* bag of <<id, run time, what became of the run>>
    last,       \* the operation that produced the current state
    bot,        \* /start handlers of the bot process about to insert a row
    lost,       \* the jobs the last restart of the process has lost
    user_seq    \* the next value of the sequence of users.id

vars == <<now, jobs, tasks, users, groups, members, homework, schedule,
          attempts, outcome, last, bot, lost, user_seq>>

dbvars == <<users, groups, members, homework, schedule>>

aux == <<bot, lost, user_seq>>

----------------------------------------------------------------------------
(* Units and program constants *)

Hour == 3600
Day == 86400
\* timedelta(hours=1): the reminder lead of both planners
Lead == 1 * Hour
\* the "< 60" of the already-scheduled check of the class planner
Tolerance == 60
\* job_defaults of AsyncIOScheduler(): misfire_grace_time = 1 second
MisfireGrace == 1
\* job_defaults of AsyncIOScheduler(): max_instances = 1
MaxInstances == 1

----------------------------------------------------------------------------
(* Bounds of the model *)

NumStudents == 2
NumHomework == 1
NumSlots == 1
\* hours the driver jobs are followed for
MaxHours == 3
\* how many whole seconds the clock runs on past the instant Due
MaxLate == 2

\* 2024-07-01, a Monday
Day0 == 19905
\* Monday 2024-07-01 07:00:00 UTC = 10:00 in Moscow
Start == Day0 * Day + 7 * Hour
\* Monday 2024-07-01 14:00:00 UTC = 17:00 in Moscow: the clock reads Start,
\* then Due, then every second up to Due + MaxLate
Due == Start + 7 * Hour

TeacherId == 1
StudentIds == 2 .. (NumStudents + 1)
UserIds == {TeacherId} \cup StudentIds
GroupIds == {1}
HomeworkIds == 1 .. NumHomework
SlotIds == 1 .. NumSlots

\* deadlines a request may carry: the reminder instant of the first is
\* exactly Start, those of the others are Due and Due + 1s
Deadlines == {Start + Hour, Due + Hour, Due + Hour + 1}

\* the deadlines requests carry for homework h: the one a second after
\* another only for homework 1
DeadlinesFor(h) == IF h = 1 THEN Deadlines ELSE Deadlines \ {Due + Hour + 1}
\* Column values of a schedule row: None is the string "None"
Link == "https://meet.example/1"

Slot(day, time_at, link) ==
    [exists |-> TRUE, group_id |-> 1, day_of_week |-> day,
     time_at |-> time_at, meeting_link |-> link]

\* the schedule rows a slot may start as: Monday (today at Start) at 09:00,
\* 11:00 and 18:00, Tuesday, Wednesday, and Monday 18:00 without a link
SlotConfigs ==
    {Slot("monday", 18 * Hour, Link), Slot("monday", 11 * Hour, Link),
     Slot("monday", 9 * Hour, Link), Slot("tuesday", 18 * Hour, Link),
     Slot("tuesday", 1 * Hour, Link), Slot("wednesday", 18 * Hour, Link),
     Slot("monday", 18 * Hour, "None"), Slot("monday", 18 * Hour, "")}

\* time-zone names a teacher row may carry; the last is not a zone
TeacherZones == {"Europe/Moscow", "UTC", "Mars/Olympus"}

----------------------------------------------------------------------------
(* pytz and datetime *)

\* the zones of the tz database the model knows, with their UTC offset in
\* July 2024
KnownZones == {"UTC", "Europe/Moscow", "America/New_York"}

UtcOffset(name) ==
    CASE name = "Europe/Moscow" -> 3 * Hour
      [] name = "America/New_York" -> 0 - 4 * Hour
      [] OTHER -> 0

\* a fallback to the zone of the server (Moscow) for an unknown name
ResolveZoneLocal(name) ==
    IF name \in KnownZones THEN UtcOffset(name) ELSE 3 * Hour

\* pytz.timezone(name) inside try/except UnknownTimeZoneError: pytz.UTC
ResolveZone(name) ==
    IF name \in KnownZones THEN UtcOffset(name) ELSE 0

\* tz.localize(datetime.combine(date, time_at))
Localize(off, date, time_at) == [wall |-> date * Day + time_at, off |-> off]

\* dt.astimezone(tz)
AsTimezone(dt, off) == [wall |-> (dt.wall - dt.off) + off, off |-> off]

\* dt - timedelta(seconds=delta): wall-clock arithmetic, tzinfo kept
MinusDelta(dt, delta) == [wall |-> dt.wall - delta, off |-> dt.off]

\* the absolute instant of an aware datetime
Instant(dt) == dt.wall - dt.off

\* now_utc.date()
DateOf(t) == t \div Day

\* date.weekday(): Monday is 0
Weekday(date) == (date + 3) % 7

\* calendar.day_name[...].lower(), then day_mapping.get
DayNames == <<"monday", "tuesday", "wednesday", "thursday", "friday",
              "saturday", "sunday">>

DayOfDate(date) == DayNames[Weekday(date) + 1]

\* the hour of day of a wall-clock reading
HourOfDay(wall) == (wall % Day) \div Hour

\* the minute of the hour of a wall-clock reading
MinuteOfHour(wall) == (wall % Hour) \div 60

----------------------------------------------------------------------------
(* The job store *)

HwJobId(h) == <<"homework_reminder", h>>

ClassJobId(item, date, student) ==
    <<"class_reminder", item, date, "student", student>>

IsHwJob(j) == j.func = "send_homework_reminder_job"

IsClassJob(j) == j.func = "send_class_reminder_to_student_job"

Job(id, run, func, args) ==
    [id |-> id, next_run_time |-> run, func |-> func, args |-> args]

\* scheduler.get_job(job_id): the job, or None
HasJob(J, id) == \E j \in J : j.id = id

GetJob(J, id) == CHOOSE j \in J : j.id = id

\* an add_job without id=: the job is stored under an id of its own
AddJobFreshId(J, job) ==
    J \cup {[job EXCEPT !.id = <<job.id, Cardinality(J)>>]}

\* add_job that keeps a job already stored under the id
AddJobKeepOld(J, job) == J \cup {job}

\* scheduler.add_job(..., id=id, replace_existing=True)
AddJob(J, job) == {j \in J : j.id # job.id} \cup {job}

\* scheduler.remove_job(job_id): raises JobLookupError when absent
RemoveJob(J, id) ==
    IF HasJob(J, id)
    THEN [raised |-> FALSE, jobs |-> {j \in J : j.id # id}]
    ELSE [raised |-> TRUE, jobs |-> J]

----------------------------------------------------------------------------
(* Homework reminder planner *)

\* the planner with "<" for "<=" in its guard
ScheduleHomeworkReminderLt(J, t, h, deadline, g) ==
    LET reminder_time == deadline - Lead IN
    IF reminder_time < t
    THEN J
    ELSE {j \in J : j.id # HwJobId(h)} \cup
           {Job(HwJobId(h), reminder_time,
                "send_homework_reminder_job", <<h, g>>)}

\* schedule_homework_reminder(homework_id, deadline_utc, group_id) at time t
ScheduleHomeworkReminder(J, t, h, deadline, g) ==
    LET reminder_time == deadline - Lead IN
    IF reminder_time <= t
    THEN J
    ELSE AddJob(J, Job(HwJobId(h), reminder_time,
                       "send_homework_reminder_job", <<h, g>>))

\* cancel without the try/except
CancelHomeworkReminderNoExcept(J, h) == RemoveJob(J, HwJobId(h))

\* cancel_homework_reminder(homework_id): the bare except swallows the
\* JobLookupError
CancelHomeworkReminder(J, h) ==
    LET r == RemoveJob(J, HwJobId(h)) IN
    [raised |-> FALSE, jobs |-> r.jobs]

----------------------------------------------------------------------------
(* Class occurrence planner *)

\* the sequences that hold every element of a finite set once: the orders
\* in which a query without ORDER BY may return its rows
Orders(S) ==
    {f \in [1 .. Cardinality(S) -> S] :
        \A i, j \in 1 .. Cardinality(S) : f[i] = f[j] => i = j}

\* a row of group_members; the table has no unique constraint on the pair
MemberRow(g, u) == [group_id |-> g, student_id |-> u]

\* a member query without the filter on the group: every student
AllStudents(g) == [i \in 1 .. NumStudents |-> i + 1]

\* db.query(GroupMember).filter(GroupMember.group_id == g).all(), as the
\* student ids of the rows, in the order the table returns them
MembersOf(g) ==
    LET rows == SelectSeq(members, LAMBDA m : m.group_id = g)
    IN [i \in 1 .. Len(rows) |-> rows[i].student_id]

\* db.query(GroupMember).filter(group_id == g, student_id == u).first()
IsMember(g, u) == \E i \in DOMAIN members : members[i] = MemberRow(g, u)

\* a truthy meeting_link: neither None nor the empty string
HasLink(item) == item.meeting_link # "None" /\ item.meeting_link # ""

\* a selection of slots that does not look at the group's is_active
PlannedSlotsAnyStatus(t) ==
    {s \in SlotIds :
        /\ schedule[s].exists
        /\ schedule[s].day_of_week \in {DayOfDate(DateOf(t)),
                                        DayOfDate(DateOf(t) + 1)}
        /\ schedule[s].group_id \in GroupIds
        /\ groups[schedule[s].group_id].exists
        /\ HasLink(schedule[s])}

\* db.query(Schedule).join(Group).filter(or_(today, tomorrow),
\* Group.is_active == True), then the filter on meeting_link
PlannedSlots(t) ==
    {s \in SlotIds :
        /\ schedule[s].exists
        /\ schedule[s].day_of_week \in {DayOfDate(DateOf(t)),
                                        DayOfDate(DateOf(t) + 1)}
        /\ schedule[s].group_id \in GroupIds
        /\ groups[schedule[s].group_id].exists
        /\ groups[schedule[s].group_id].is_active
        /\ HasLink(schedule[s])}

\* a Schedule object of the session: the columns as the query loaded them
SlotObject(s) ==
    [id |-> s, group_id |-> schedule[s].group_id,
     day_of_week |-> schedule[s].day_of_week,
     time_at |-> schedule[s].time_at]

\* target_date of a selected slot: today when its day is today's
TargetDate(t, item) ==
    IF item.day_of_week = DayOfDate(DateOf(t))
    THEN DateOf(t) ELSE DateOf(t) + 1

\* a class time that reads (target date, time_at) as UTC
ClassTimeUtcNaive(tzname, date, time_at) ==
    AsTimezone(Localize(0, date, time_at), 0)

\* class_time_utc: (target date, time_at) localized in the teacher's zone
ClassTimeUtc(tzname, date, time_at) ==
    AsTimezone(Localize(ResolveZone(tzname), date, time_at), 0)

\* a reminder time that takes the student's wall clock reading for UTC
ReminderTimeUtcWall(class_time_utc, tzname) ==
    LET class_time_student_tz ==
            AsTimezone(class_time_utc, ResolveZone(tzname))
        reminder_time_student_tz == MinusDelta(class_time_student_tz, Lead)
    IN [wall |-> reminder_time_student_tz.wall, off |-> 0]

\* reminder_time_utc: one hour before the class, computed on the wall clock
\* of the student's zone
ReminderTimeUtc(class_time_utc, tzname) ==
    LET class_time_student_tz ==
            AsTimezone(class_time_utc, ResolveZone(tzname))
        reminder_time_student_tz == MinusDelta(class_time_student_tz, Lead)
    IN AsTimezone(reminder_time_student_tz, 0)

Abs(x) == IF x < 0 THEN 0 - x ELSE x

\* a check that also takes a job at exactly 60 seconds for scheduled
AlreadyScheduledLe(J, id, reminder) ==
    /\ HasJob(J, id)
    /\ Abs(GetJob(J, id).next_run_time - reminder) <= Tolerance

\* "already scheduled": a job with this id exists and its next_run_time is
\* less than 60 seconds from the computed reminder time
AlreadyScheduled(J, id, reminder) ==
    /\ HasJob(J, id)
    /\ Abs(GetJob(J, id).next_run_time - reminder) < Tolerance

\* a User object of the session; None is the object with id 0
NoUser == [id |-> 0, is_active |-> FALSE, timezone |-> ""]

UserObject(u) ==
    [id |-> u, is_active |-> users[u].is_active,
     timezone |-> users[u].timezone]

\* db.query(User).filter(User.id == u).first() in a session that holds the
\* objects `held`: None when the row is gone; the object the session holds
\* for the row, with the columns it was loaded with; else a new object
QueryUser(u, held) ==
    IF ~(u \in UserIds /\ users[u].exists) THEN NoUser
    ELSE IF \E o \in held : o.id = u THEN CHOOSE o \in held : o.id = u
    ELSE UserObject(u)

\* a loop body that only requires the class to lie ahead
PlanStudentClassAhead(J, t, item, date, class_time_utc, student) ==
    IF student = NoUser \/ ~student.is_active THEN {}
    ELSE
      LET reminder_time_utc ==
              ReminderTimeUtc(class_time_utc, student.timezone)
          job_id == ClassJobId(item.id, date, student.id)
      IN IF Instant(class_time_utc) > t
         THEN IF AlreadyScheduled(J, job_id, Instant(reminder_time_utc))
              THEN {}
              ELSE {Job(job_id, Instant(reminder_time_utc),
                        "send_class_reminder_to_student_job",
                        <<item.id, student.id>>)}
         ELSE {}

\* the body of the loop over members down to scheduler.get_job, for the
\* student object of one member row: the job add_job is to be called
\* with, or none when the loop continues
PlanStudent(J, t, item, date, class_time_utc, student) ==
    IF student = NoUser \/ ~student.is_active THEN {}
    ELSE
      LET reminder_time_utc ==
              ReminderTimeUtc(class_time_utc, student.timezone)
          job_id == ClassJobId(item.id, date, student.id)
      IN IF Instant(reminder_time_utc) > t /\ Instant(class_time_utc) > t
         THEN IF AlreadyScheduled(J, job_id, Instant(reminder_time_utc))
              THEN {}
              ELSE {Job(job_id, Instant(reminder_time_utc),
                        "send_class_reminder_to_student_job",
                        <<item.id, student.id>>)}
         ELSE {}

----------------------------------------------------------------------------
(* The driver jobs *)

DailyId == <<"daily_class_scheduler">>

HourlyId == <<"hourly_class_scheduler">>

InitialId == <<"initial_class_scheduler">>

DriverIds == {DailyId, HourlyId, InitialId}

IsDriverJob(j) == j.func = "schedule_class_reminders"

\* CronTrigger(hour=0, minute=1), CronTrigger(minute=0) and the DateTrigger
\* add_job builds when no trigger is given
DailyTrigger == [kind |-> "cron", hour |-> 0, minute |-> 1]

HourlyTrigger == [kind |-> "cron", hour |-> -1, minute |-> 0]

DateTriggerNow == [kind |-> "date", hour |-> -1, minute |-> -1]

\* trigger.get_next_fire_time: the first instant >= t at second 0 of the
\* trigger's minute, of any hour (hour = -1) or of its hour, on the clock
\* of the scheduler (UTC)
NextFireTime(trigger, t) ==
    LET period == IF trigger.hour = -1 THEN Hour ELSE Day
        phase == IF trigger.hour = -1 THEN trigger.minute * 60
                 ELSE trigger.hour * Hour + trigger.minute * 60
        base == (t \div period) * period + phase
    IN IF base >= t THEN base ELSE base + period

DriverJob(id, run, trigger) ==
    [id |-> id, next_run_time |-> run, func |-> "schedule_class_reminders",
     args |-> <<>>, trigger |-> trigger]

\* trigger.get_next_fire_time run over the fire times a late job has
\* passed: the last fire time <= t
LastFireTime(trigger, t) ==
    LET period == IF trigger.hour = -1 THEN Hour ELSE Day
        phase == IF trigger.hour = -1 THEN trigger.minute * 60
                 ELSE trigger.hour * Hour + trigger.minute * 60
        base == (t \div period) * period + phase
    IN IF base <= t THEN base ELSE base - period

\* the cron jobs in the store of a process that started before t: each is
\* due at its first fire time from t on
DriverJobsAt(t) ==
    {DriverJob(HourlyId, NextFireTime(HourlyTrigger, t), HourlyTrigger),
     DriverJob(DailyId, NextFireTime(DailyTrigger, t), DailyTrigger)}

----------------------------------------------------------------------------
(* Initial states *)

\* prev: for the homework planner calls, the run time the job of the id had
\* before the call, 0 for none; for a class planning pass, 1 when the pass
\* directly follows another pass, else 0
Op(name, args) == [op |-> name, args |-> args, raised |-> FALSE, prev |-> 0]

PrevRun(J, id) == IF HasJob(J, id) THEN GetJob(J, id).next_run_time ELSE 0

\* the rows of table users: the teacher, and students in New York (user 2)
\* and UTC (the others), of whom those in `active` are active
UsersInit(teacher_tz, active) ==
    [u \in UserIds |->
        IF u = TeacherId
        THEN [exists |-> TRUE, is_active |-> TRUE, timezone |-> teacher_tz]
        ELSE [exists |-> TRUE, is_active |-> (u \in active),
              timezone |-> IF u = 2 THEN "America/New_York" ELSE "UTC"]]

\* table group_members with one row for every student of `S`, in any order
MemberTables(S) == Orders({MemberRow(g, u) : g \in GroupIds, u \in S})

InitEntities ==
    /\ now = Start
    /\ tasks = {}
    /\ groups = [g \in GroupIds |->
                   [exists |-> TRUE, teacher_id |-> TeacherId,
                    is_active |-> TRUE]]
    /\ homework = [h \in HomeworkIds |->
                     [exists |-> TRUE, group_id |-> 1,
                      deadline |-> Due + Hour,
                      reminder_sent |-> FALSE]]
    /\ attempts = EmptyBag
    /\ outcome = EmptyBag
    /\ last = Op("init", <<>>)
    /\ bot = {}
    /\ lost = {}

InitCommon ==
    /\ InitEntities
    /\ user_seq = NumStudents + 2

\* the process has been up since before Monday 07:00 UTC and its pass of
\* 07:00 is over: the teacher is in Moscow, student 2 is the active member,
\* slot 1 is Monday 18:00 with a link and the other slots have no link
Init ==
    /\ InitCommon
    /\ jobs = DriverJobsAt(Start + 1) \cup
              {Job(ClassJobId(1, Day0, 2), Due,
                   "send_class_reminder_to_student_job", <<1, 2>>)}
    /\ members \in MemberTables(StudentIds)
    /\ users = UsersInit("Europe/Moscow", {2})
    /\ schedule = [s \in SlotIds |->
                     IF s = 1 THEN Slot("monday", 18 * Hour, Link)
                     ELSE Slot("monday", 18 * Hour, "None")]

\* class jobs a planning pass may find: none, or a job for slot 1, today
\* and student 2 left by an earlier pass, at the run time of Monday 18:00
\* Moscow time or 30s, 60s or 4h later
StoredBefore ==
    {{}} \cup
    {{Job(ClassJobId(1, Day0, 2), Due + d,
          "send_class_reminder_to_student_job", <<1, 2>>)} :
        d \in {0, 30, 60, 4 * Hour}}

\* inputs of the class planner: the hourly job is due; any slot
\* configuration, teacher zone, set of active students and stored job
InitPlan ==
    /\ InitCommon
    /\ \E stored \in StoredBefore : jobs = DriverJobsAt(Start) \cup stored
    /\ members \in MemberTables(StudentIds)
    /\ \E tz \in TeacherZones, a \in {{2}, {2, 3}, StudentIds \ {2}} :
         users = UsersInit(tz, a)
    /\ schedule \in [SlotIds -> SlotConfigs]

\* the reminders create_homework has planned at time t for the rows hs
RECURSIVE PlannedAtCreation(_, _, _)
PlannedAtCreation(J, t, hs) ==
    IF hs = {} THEN J
    ELSE LET h == CHOOSE x \in hs : TRUE
         IN PlannedAtCreation(
                ScheduleHomeworkReminder(J, t, h, Due + Hour, 1), t,
                hs \ {h})

\* the teacher has just created the homework rows in a group whose members
\* are all active, or all but student 3
InitFanOut ==
    /\ InitCommon
    /\ jobs = PlannedAtCreation({}, Start, HomeworkIds)
    /\ members \in MemberTables(StudentIds)
    /\ \E a \in {StudentIds, StudentIds \ {3}} :
         users = UsersInit("Europe/Moscow", a)
    /\ schedule = [s \in SlotIds |-> Slot("monday", 18 * Hour, "None")]

\* time-zone names a student row may carry; the last is not a zone
StudentZones == {"America/New_York", "UTC", "Not/AZone"}

\* inputs of the class planner with any zone names: the hourly job is due,
\* every student is active
InitZones ==
    /\ InitCommon
    /\ jobs = DriverJobsAt(Start)
    /\ members \in MemberTables(StudentIds)
    /\ \E tz \in TeacherZones, z \in [StudentIds -> StudentZones] :
         users = [u \in UserIds |->
                    [exists |-> TRUE, is_active |-> TRUE,
                     timezone |-> IF u = TeacherId THEN tz ELSE z[u]]]
    /\ schedule \in [SlotIds -> SlotConfigs]

----------------------------------------------------------------------------
(* The clock *)

\* time passes: from Start to Due, then second by second
Tick ==
    /\ now < Due + MaxLate
    /\ now' = IF now < Due THEN Due ELSE now + 1
    /\ last' = Op("tick", <<>>)
    /\ UNCHANGED <<aux, jobs, tasks, dbvars, attempts, outcome>>

----------------------------------------------------------------------------
(* Calls of the planners *)

CallScheduleHomeworkReminder(h, deadline, g) ==
    /\ jobs' = ScheduleHomeworkReminder(jobs, now, h, deadline, g)
    /\ last' = [Op("schedule_homework_reminder", <<h, deadline, g>>)
                   EXCEPT !.prev = PrevRun(jobs, HwJobId(h))]
    /\ UNCHANGED <<aux, now, tasks, dbvars, attempts, outcome>>

CallCancelHomeworkReminder(h) ==
    /\ LET r == CancelHomeworkReminder(jobs, h) IN
         /\ jobs' = r.jobs
         /\ last' = [Op("cancel_homework_reminder", <<h>>)
                        EXCEPT !.raised = r.raised,
                               !.prev = PrevRun(jobs, HwJobId(h))]
    /\ UNCHANGED <<aux, now, tasks, dbvars, attempts, outcome>>

----------------------------------------------------------------------------
(* Request handlers that change what the job functions read *)

\* a status update that cancels the homework reminders of a paused group
UpdateGroupStatusCancels(g, isActive) ==
    /\ groups[g].exists
    /\ groups' = [groups EXCEPT ![g].is_active = isActive]
    /\ jobs' = IF isActive THEN jobs
               ELSE {j \in jobs : ~(IsHwJob(j) /\ j.args[2] = g)}
    /\ last' = Op("update_group_status", <<g, isActive>>)
    /\ UNCHANGED <<aux, now, tasks, users, members, homework, schedule,
                   attempts, outcome>>

\* PATCH /groups/{group_id}/status
UpdateGroupStatus(g, isActive) ==
    /\ groups[g].exists
    /\ groups' = [groups EXCEPT ![g].is_active = isActive]
    /\ last' = Op("update_group_status", <<g, isActive>>)
    /\ UNCHANGED <<aux, now, jobs, tasks, users, members, homework, schedule,
                   attempts, outcome>>

\* DELETE /groups/{group_id}: members, homework and schedule rows cascade
DeleteGroup(g) ==
    /\ groups[g].exists
    /\ groups' = [groups EXCEPT ![g].exists = FALSE]
    /\ members' = SelectSeq(members, LAMBDA m : m.group_id # g)
    /\ homework' = [h \in HomeworkIds |->
                      IF homework[h].group_id = g
                      THEN [homework[h] EXCEPT !.exists = FALSE]
                      ELSE homework[h]]
    /\ schedule' = [s \in SlotIds |->
                      IF schedule[s].group_id = g
                      THEN [schedule[s] EXCEPT !.exists = FALSE]
                      ELSE schedule[s]]
    /\ last' = Op("delete_group", <<g>>)
    /\ UNCHANGED <<aux, now, jobs, tasks, users, attempts, outcome>>

\* an edit that plans the new reminder without cancelling the old one
UpdateHomeworkNoCancel(h, deadline) ==
    /\ homework[h].exists
    /\ groups[homework[h].group_id].exists
    /\ homework' = [homework EXCEPT ![h].deadline = deadline]
    /\ jobs' = IF deadline # homework[h].deadline
               THEN ScheduleHomeworkReminder(jobs, now, h, deadline,
                                             homework[h].group_id)
               ELSE jobs
    /\ last' = [Op("update_homework", <<h, deadline>>)
                   EXCEPT !.prev = PrevRun(jobs, HwJobId(h))]
    /\ UNCHANGED <<aux, now, tasks, users, groups, members, schedule, attempts,
                   outcome>>

\* an edit that also clears reminder_sent when the deadline changes
UpdateHomeworkResets(h, deadline) ==
    /\ homework[h].exists
    /\ groups[homework[h].group_id].exists
    /\ homework' = [homework EXCEPT
                      ![h].deadline = deadline,
                      ![h].reminder_sent =
                          IF deadline # homework[h].deadline THEN FALSE
                          ELSE homework[h].reminder_sent]
    /\ jobs' = IF deadline # homework[h].deadline
               THEN ScheduleHomeworkReminder(
                        CancelHomeworkReminder(jobs, h).jobs, now, h,
                        deadline, homework[h].group_id)
               ELSE jobs
    /\ last' = [Op("update_homework", <<h, deadline>>)
                   EXCEPT !.prev = PrevRun(jobs, HwJobId(h))]
    /\ UNCHANGED <<aux, now, tasks, users, groups, members, schedule, attempts,
                   outcome>>

\* PUT /homework/{homework_id} with a deadline: the row is committed, and
\* when the deadline changed the reminder is cancelled and planned again
UpdateHomework(h, deadline) ==
    /\ homework[h].exists
    /\ groups[homework[h].group_id].exists
    /\ homework' = [homework EXCEPT ![h].deadline = deadline]
    /\ jobs' = IF deadline # homework[h].deadline
               THEN ScheduleHomeworkReminder(
                        CancelHomeworkReminder(jobs, h).jobs, now, h,
                        deadline, homework[h].group_id)
               ELSE jobs
    /\ last' = [Op("update_homework", <<h, deadline>>)
                   EXCEPT !.prev = PrevRun(jobs, HwJobId(h))]
    /\ UNCHANGED <<aux, now, tasks, users, groups, members, schedule, attempts,
                   outcome>>

\* DELETE /homework/{homework_id}: the reminder is cancelled, then the row
\* is deleted
DeleteHomework(h) ==
    /\ homework[h].exists
    /\ groups[homework[h].group_id].exists
    /\ jobs' = CancelHomeworkReminder(jobs, h).jobs
    /\ homework' = [homework EXCEPT ![h].exists = FALSE]
    /\ last' = [Op("delete_homework", <<h>>)
                   EXCEPT !.prev = PrevRun(jobs, HwJobId(h))]
    /\ UNCHANGED <<aux, now, tasks, users, groups, members, schedule, attempts,
                   outcome>>

\* DELETE /auth/me: the user row is deleted; with a membership row or a
\* group of the user left, the flush sets their NOT NULL foreign key to
\* NULL, the commit fails and is rolled back
DeleteUser(u) ==
    /\ users[u].exists
    /\ users[u].is_active
    /\ IF \/ \E i \in DOMAIN members : members[i].student_id = u
          \/ \E g \in GroupIds : groups[g].exists /\ groups[g].teacher_id = u
       THEN /\ users' = users
            /\ last' = [Op("delete_user", <<u>>) EXCEPT !.raised = TRUE]
       ELSE /\ users' = [users EXCEPT ![u].exists = FALSE]
            /\ last' = Op("delete_user", <<u>>)
    /\ UNCHANGED <<aux, now, jobs, tasks, groups, members, homework, schedule,
                   attempts, outcome>>

\* the table without the first row that equals `row`
RemoveFirst(rows, row) ==
    LET i == CHOOSE k \in DOMAIN rows :
                 rows[k] = row /\ \A n \in 1 .. (k - 1) : rows[n] # row
    IN SubSeq(rows, 1, i - 1) \o SubSeq(rows, i + 1, Len(rows))

\* the table with `row` stored at place i
InsertAt(rows, i, row) ==
    SubSeq(rows, 1, i - 1) \o <<row>> \o SubSeq(rows, i, Len(rows))

\* DELETE /groups/{group_id}/students/{student_tg_id}: the row the
\* membership query returns first is deleted
RemoveStudentFromGroup(g, u) ==
    /\ groups[g].exists
    /\ users[u].exists
    /\ IsMember(g, u)
    /\ members' = RemoveFirst(members, MemberRow(g, u))
    /\ last' = Op("remove_student_from_group", <<g, u>>)
    /\ UNCHANGED <<aux, now, jobs, tasks, users, groups, homework, schedule,
                   attempts, outcome>>

\* POST /groups/join by student u with the invite code of group g: a row
\* is inserted unless the membership query finds one; the place of the new
\* row in the table is the database's choice
JoinGroup(g, u) ==
    /\ users[u].exists /\ users[u].is_active
    /\ groups[g].exists /\ groups[g].is_active
    /\ groups[g].teacher_id # u
    /\ IF IsMember(g, u)
       THEN members' = members
       ELSE \E i \in 1 .. (Len(members) + 1) :
               members' = InsertAt(members, i, MemberRow(g, u))
    /\ last' = Op("join_group", <<g, u>>)
    /\ UNCHANGED <<aux, now, jobs, tasks, users, groups, homework, schedule,
                   attempts, outcome>>

\* /start group_<code> in the bot process, down to the membership query:
\* without a row for the pair the handler goes on to insert one; the group
\* may be paused
CmdStart(g, u) ==
    /\ users[u].exists
    /\ groups[g].exists
    /\ groups[g].teacher_id # u
    /\ ~IsMember(g, u)
    /\ <<g, u>> \notin bot
    /\ bot' = bot \cup {<<g, u>>}
    /\ last' = Op("cmd_start", <<g, u>>)
    /\ UNCHANGED <<now, jobs, tasks, dbvars, attempts, outcome, lost,
                   user_seq>>

\* db.add(new_member) and db.commit() of /start: the row is inserted
\* whatever rows other sessions have committed since the query; the commit
\* fails and is rolled back when the group or the user is gone
CmdStartCommit(g, u) ==
    /\ <<g, u>> \in bot
    /\ bot' = bot \ {<<g, u>>}
    /\ IF groups[g].exists /\ users[u].exists
       THEN /\ \E i \in 1 .. (Len(members) + 1) :
                  members' = InsertAt(members, i, MemberRow(g, u))
            /\ last' = Op("cmd_start_commit", <<g, u>>)
       ELSE /\ members' = members
            /\ last' = [Op("cmd_start_commit", <<g, u>>)
                           EXCEPT !.raised = TRUE]
    /\ UNCHANGED <<now, jobs, tasks, users, groups, homework, schedule,
                   attempts, outcome, lost, user_seq>>

\* PUT /auth/profile with a time zone: a name pytz does not know is
\* answered with 400 and the row stays as it is
UpdateProfile(u, tzname) ==
    /\ users[u].exists /\ users[u].is_active
    /\ IF tzname \in KnownZones
       THEN /\ users' = [users EXCEPT ![u].timezone = tzname]
            /\ last' = Op("update_profile", <<u, tzname>>)
       ELSE /\ users' = users
            /\ last' = [Op("update_profile", <<u, tzname>>)
                           EXCEPT !.raised = TRUE]
    /\ UNCHANGED <<aux, now, jobs, tasks, groups, members, homework,
                   schedule, attempts, outcome>>

\* POST /auth/login of a Telegram user without a row: the row is created
\* under the next id of the sequence, as an active student with the time
\* zone of the request, which is not validated ("UTC" without one, as in
\* get_current_user and in get_or_create_user of the bot)
Login(tzname) ==
    /\ user_seq \in UserIds
    /\ users' = [users EXCEPT ![user_seq] =
                    [exists |-> TRUE, is_active |-> TRUE,
                     timezone |-> tzname]]
    /\ user_seq' = user_seq + 1
    /\ last' = Op("login", <<user_seq, tzname>>)
    /\ UNCHANGED <<now, jobs, tasks, groups, members, homework, schedule,
                   attempts, outcome, bot, lost>>

\* PUT /schedule/{schedule_id} with a day_of_week and a time_at
MoveScheduleItem(s, day, time_at) ==
    /\ schedule[s].exists
    /\ groups[schedule[s].group_id].exists
    /\ schedule' = [schedule EXCEPT ![s].day_of_week = day,
                                    ![s].time_at = time_at]
    /\ last' = Op("update_schedule_item", <<s, day, time_at>>)
    /\ UNCHANGED <<aux, now, jobs, tasks, users, groups, members, homework,
                   attempts, outcome>>

\* DELETE /schedule/{schedule_id}
DeleteScheduleItem(s) ==
    /\ schedule[s].exists
    /\ groups[schedule[s].group_id].exists
    /\ schedule' = [schedule EXCEPT ![s].exists = FALSE]
    /\ last' = Op("delete_schedule_item", <<s>>)
    /\ UNCHANGED <<aux, now, jobs, tasks, users, groups, members, homework,
                   attempts, outcome>>

\* PUT /schedule/{schedule_id} with a meeting_link
UpdateScheduleItem(s, link) ==
    /\ schedule[s].exists
    /\ groups[schedule[s].group_id].exists
    /\ schedule' = [schedule EXCEPT ![s].meeting_link = link]
    /\ last' = Op("update_schedule_item", <<s, link>>)
    /\ UNCHANGED <<aux, now, jobs, tasks, users, groups, members, homework,
                   attempts, outcome>>

----------------------------------------------------------------------------
(* The timer loop of the job store and the executor *)

\* a job instance: no id is ever given the same run time twice, since the
\* planners only add run times that lie ahead and the loop only processes
\* run times that have passed
Instance(j) == <<j.id, j.next_run_time>>

Outcome(j, what) == <<j.id, j.next_run_time, what>>

TaskOutcome(task, what) == <<task.id, task.run_time, what>>

Plus(B, x) == B (+) SetToBag({x})

Count(B, x) == CopiesIn(x, B)

Running(id) == {t \in tasks : t.id = id}

\* a run of a job function for run time `run`; todo holds the member rows
\* the loop has not come to; at_fire records, for a homework run, the
\* members whose student row was active when the function was called; loc
\* holds the local variables of a run of schedule_class_reminders: now_utc,
\* the Schedule objects from the current one on, target_date and
\* class_time_utc of the current one, the groups the session has loaded,
\* the User objects `teacher` and `student` refer to, and the job add_job
\* is about to be called with
Task(j, run) ==
    [id |-> j.id, run_time |-> run, func |-> j.func,
     args |-> j.args, pc |-> "submitted", todo |-> <<>>,
     at_fire |-> <<>>,
     loc |-> [now_utc |-> 0, schedules |-> <<>>, target_date |-> 0,
              class_time_utc |-> [wall |-> 0, off |-> 0], groups |-> {},
              teacher |-> NoUser, student |-> NoUser, add |-> {}]]

\* a timer loop that leaves the processed job in the store
ProcessJobKeep(j) ==
    /\ j \in jobs
    /\ ~IsDriverJob(j)
    /\ j.next_run_time <= now
    /\ jobs' = jobs
    /\ IF Cardinality(Running(j.id)) >= MaxInstances
       THEN /\ tasks' = tasks
            /\ outcome' = Plus(outcome, Outcome(j, "max_instances"))
       ELSE /\ tasks' = tasks \cup {Task(j, j.next_run_time)}
            /\ outcome' = outcome
    /\ last' = Op("process_job", <<j.id, j.next_run_time, j.func, j.args>>)
    /\ UNCHANGED <<aux, now, dbvars, attempts>>

\* _process_jobs for one due reminder job: the run is submitted to the
\* executor unless max_instances runs of the id are in progress, and the
\* job, whose DateTrigger has no further fire time, is removed from the
\* store
ProcessJob(j) ==
    /\ j \in jobs
    /\ ~IsDriverJob(j)
    /\ j.next_run_time <= now
    /\ jobs' = {x \in jobs : x.id # j.id}
    /\ IF Cardinality(Running(j.id)) >= MaxInstances
       THEN /\ tasks' = tasks
            /\ outcome' = Plus(outcome, Outcome(j, "max_instances"))
       ELSE /\ tasks' = tasks \cup {Task(j, j.next_run_time)}
            /\ outcome' = outcome
    /\ last' = Op("process_job", <<j.id, j.next_run_time, j.func, j.args>>)
    /\ UNCHANGED <<aux, now, dbvars, attempts>>

\* run_coroutine_job drops a run that starts more than misfire_grace_time
\* after its run time
Misfired(task) == now - task.run_time > MisfireGrace

MissJob(task) ==
    /\ task \in tasks
    /\ task.pc = "submitted"
    /\ Misfired(task)
    /\ tasks' = tasks \ {task}
    /\ outcome' = Plus(outcome, TaskOutcome(task, "missed"))
    /\ last' = Op("missed",
                <<task.id, task.run_time, task.func, task.args>>)
    /\ UNCHANGED <<aux, now, jobs, dbvars, attempts>>

----------------------------------------------------------------------------
(* send_homework_reminder_job *)

Eligible(u) == u \in UserIds /\ users[u].exists /\ users[u].is_active

\* a loop that skips no member
SkipNone(ms) == ms

\* the members the loop skips: student row missing or inactive
RECURSIVE SkipIneligible(_)
SkipIneligible(ms) ==
    IF ms = <<>> THEN <<>>
    ELSE IF Eligible(Head(ms)) THEN ms ELSE SkipIneligible(Tail(ms))

Delivery(kind, item, student) ==
    [kind |-> kind, item |-> item, student |-> student]

\* the members of the group whose student row is there and active now
ActiveMembers(g) == SelectSeq(MembersOf(g), Eligible)

\* the members whose student row was active when the run was called
AtFire(task) ==
    IF task.pc = "submitted" THEN ActiveMembers(task.args[2])
    ELSE task.at_fire

\* a loop that ends without reminder_sent = True and db.commit()
HomeworkFanOutNoCommit(task, ms, name) ==
    LET h == task.args[1]
        rest == SkipIneligible(ms)
    IN IF rest # <<>>
       THEN /\ attempts' = Plus(attempts, Delivery("homework", h, Head(rest)))
            /\ tasks' = (tasks \ {task}) \cup
                          {[task EXCEPT !.pc = "sending", !.todo = Tail(rest),
                                        !.at_fire = AtFire(task)]}
            /\ homework' = homework
            /\ last' = Op(name, task.args)
       ELSE /\ attempts' = attempts
            /\ tasks' = tasks \ {task}
            /\ homework' = homework
            /\ last' = Op(name, task.args)

\* the loop over members from `ms` on: up to the next bot.send_message, or
\* past the last member to reminder_sent = True and db.commit(), which
\* raises when the row is gone
HomeworkFanOut(task, ms, name) ==
    LET h == task.args[1]
        rest == SkipIneligible(ms)
    IN IF rest # <<>>
       THEN /\ attempts' = Plus(attempts, Delivery("homework", h, Head(rest)))
            /\ tasks' = (tasks \ {task}) \cup
                          {[task EXCEPT !.pc = "sending", !.todo = Tail(rest),
                                        !.at_fire = AtFire(task)]}
            /\ homework' = homework
            /\ last' = Op(name, task.args)
       ELSE /\ attempts' = attempts
            /\ tasks' = tasks \ {task}
            /\ IF homework[h].exists
               THEN /\ homework' = [homework EXCEPT ![h].reminder_sent = TRUE]
                    /\ last' = Op(name, task.args)
               ELSE /\ homework' = homework
                    /\ last' = [Op(name, task.args) EXCEPT !.raised = TRUE]

\* early returns that do not look at reminder_sent
HomeworkJobReturnsIgnoreSent(h, g) ==
    \/ ~homework[h].exists
    \/ ~(g \in GroupIds /\ groups[g].exists)
    \/ ~groups[g].is_active

\* early returns that do not look at the group's is_active
HomeworkJobReturnsAnyStatus(h, g) ==
    \/ ~homework[h].exists
    \/ homework[h].reminder_sent
    \/ ~(g \in GroupIds /\ groups[g].exists)

\* the early returns: no homework row or reminder already sent, no group
\* row, group paused
HomeworkJobReturns(h, g) ==
    \/ ~homework[h].exists
    \/ homework[h].reminder_sent
    \/ ~(g \in GroupIds /\ groups[g].exists)
    \/ ~groups[g].is_active

\* the job function is called: the checks, then the fan-out up to the
\* first await
HomeworkJobStart(task) ==
    /\ task \in tasks
    /\ task.pc = "submitted"
    /\ task.func = "send_homework_reminder_job"
    /\ ~Misfired(task)
    /\ outcome' = Plus(outcome, TaskOutcome(task, "invoked"))
    /\ LET h == task.args[1]
           g == task.args[2]
       IN IF HomeworkJobReturns(h, g)
          THEN /\ tasks' = tasks \ {task}
               /\ last' = Op("send_homework_reminder_job", task.args)
               /\ UNCHANGED <<homework, attempts>>
          ELSE HomeworkFanOut(task, MembersOf(g),
                              "send_homework_reminder_job")
    /\ UNCHANGED <<aux, now, jobs, users, groups, members, schedule>>

\* a loop that a failed send leaves: the run raises and ends
HomeworkJobResumeAborts(task, ok) ==
    /\ task \in tasks
    /\ task.pc = "sending"
    /\ task.func = "send_homework_reminder_job"
    /\ IF ok
       THEN HomeworkFanOut(task, task.todo, "homework_delivery_done")
       ELSE /\ tasks' = tasks \ {task}
            /\ last' = [Op("homework_delivery_failed", task.args)
                           EXCEPT !.raised = TRUE]
            /\ UNCHANGED <<attempts, homework>>
    /\ UNCHANGED <<aux, now, jobs, users, groups, members, schedule,
                   outcome>>

\* bot.send_message returns or fails (send_homework_reminder catches the
\* failure): the loop goes on
HomeworkJobResume(task, ok) ==
    /\ task \in tasks
    /\ task.pc = "sending"
    /\ task.func = "send_homework_reminder_job"
    /\ HomeworkFanOut(task, task.todo,
                      IF ok THEN "homework_delivery_done"
                      ELSE "homework_delivery_failed")
    /\ UNCHANGED <<aux, now, jobs, users, groups, members, schedule,
                   outcome>>

----------------------------------------------------------------------------
(* send_class_reminder_to_student_job *)

\* a job function that does not look at the student row
ClassJobStartAnyStudent(task) ==
    /\ task \in tasks
    /\ task.pc = "submitted"
    /\ task.func = "send_class_reminder_to_student_job"
    /\ ~Misfired(task)
    /\ outcome' = Plus(outcome, TaskOutcome(task, "invoked"))
    /\ LET s == task.args[1]
           u == task.args[2]
       IN IF \/ ~schedule[s].exists
             \/ ~groups[schedule[s].group_id].exists
             \/ ~groups[schedule[s].group_id].is_active
          THEN /\ tasks' = tasks \ {task}
               /\ attempts' = attempts
          ELSE /\ tasks' = (tasks \ {task}) \cup
                             {[task EXCEPT !.pc = "sending"]}
               /\ attempts' = Plus(attempts, Delivery("class", s, u))
    /\ last' = Op("send_class_reminder_to_student_job", task.args)
    /\ UNCHANGED <<aux, now, jobs, dbvars>>

\* the job function is called: the checks on the slot, its group and the
\* student, then the send up to its await
ClassJobStart(task) ==
    /\ task \in tasks
    /\ task.pc = "submitted"
    /\ task.func = "send_class_reminder_to_student_job"
    /\ ~Misfired(task)
    /\ outcome' = Plus(outcome, TaskOutcome(task, "invoked"))
    /\ LET s == task.args[1]
           u == task.args[2]
       IN IF \/ ~schedule[s].exists
             \/ ~groups[schedule[s].group_id].exists
             \/ ~groups[schedule[s].group_id].is_active
             \/ ~Eligible(u)
          THEN /\ tasks' = tasks \ {task}
               /\ attempts' = attempts
          ELSE /\ tasks' = (tasks \ {task}) \cup
                             {[task EXCEPT !.pc = "sending"]}
               /\ attempts' = Plus(attempts, Delivery("class", s, u))
    /\ last' = Op("send_class_reminder_to_student_job", task.args)
    /\ UNCHANGED <<aux, now, jobs, dbvars>>

\* bot.send_message returns or fails (send_class_reminder catches the
\* failure)
ClassJobResume(task, ok) ==
    /\ task \in tasks
    /\ task.pc = "sending"
    /\ task.func = "send_class_reminder_to_student_job"
    /\ tasks' = tasks \ {task}
    /\ last' = Op(IF ok THEN "class_delivery_done"
                  ELSE "class_delivery_failed", task.args)
    /\ UNCHANGED <<aux, now, jobs, dbvars, attempts, outcome>>

----------------------------------------------------------------------------
(* start_scheduler and the driver jobs *)

\* the clock reading at which the process of the driver runs starts:
\* Monday 22:30 UTC
DriverStart == Day0 * Day + 22 * Hour + 1800

\* the driver runs are followed for MaxHours hours
Horizon == DriverStart + MaxHours * Hour

\* a start that leaves out the hourly job
StartSchedulerNoHourly ==
    /\ last.op \in {"init", "restart"}
    /\ jobs' = AddJob(AddJob(jobs,
                   DriverJob(DailyId, NextFireTime(DailyTrigger, now),
                             DailyTrigger)),
                   DriverJob(InitialId, now, DateTriggerNow))
    /\ last' = Op("start_scheduler", <<>>)
    /\ UNCHANGED <<aux, now, tasks, dbvars, attempts, outcome>>

\* a start that plans again the reminder of every homework whose
\* reminder_sent is false
StartSchedulerSweeps ==
    /\ last.op \in {"init", "restart"}
    /\ jobs' = AddJob(AddJob(AddJob(jobs,
                   DriverJob(DailyId, NextFireTime(DailyTrigger, now),
                             DailyTrigger)),
                   DriverJob(HourlyId, NextFireTime(HourlyTrigger, now),
                             HourlyTrigger)),
                   DriverJob(InitialId, now, DateTriggerNow))
                \cup UNION {ScheduleHomeworkReminder(
                                {}, now, h, homework[h].deadline,
                                homework[h].group_id) :
                            h \in {x \in HomeworkIds :
                                      ~homework[x].reminder_sent}}
    /\ last' = Op("start_scheduler", <<>>)
    /\ UNCHANGED <<aux, now, tasks, dbvars, attempts, outcome>>

\* start_scheduler(), called by startup_event at every start of the
\* process: three add_job with replace_existing, then scheduler.start()
StartScheduler ==
    /\ last.op \in {"init", "restart"}
    /\ jobs' = AddJob(AddJob(AddJob(jobs,
                   DriverJob(DailyId, NextFireTime(DailyTrigger, now),
                             DailyTrigger)),
                   DriverJob(HourlyId, NextFireTime(HourlyTrigger, now),
                             HourlyTrigger)),
                   DriverJob(InitialId, now, DateTriggerNow))
    /\ last' = Op("start_scheduler", <<>>)
    /\ UNCHANGED <<aux, now, tasks, dbvars, attempts, outcome>>

\* _process_jobs for a due driver job: the fire times the job has passed
\* are coalesced into the last one; the run is submitted for it unless
\* max_instances runs of the id are in progress; a cron job gets the fire
\* time that follows, the date job is removed
ProcessDriverJob(j) ==
    /\ j \in jobs
    /\ IsDriverJob(j)
    /\ j.next_run_time <= now
    /\ LET run == IF j.trigger.kind = "date" THEN j.next_run_time
                  ELSE LastFireTime(j.trigger, now)
       IN /\ jobs' = IF j.trigger.kind = "date"
                     THEN {x \in jobs : x.id # j.id}
                     ELSE AddJob(jobs,
                            DriverJob(j.id, NextFireTime(j.trigger, run + 1),
                                      j.trigger))
          /\ IF Cardinality(Running(j.id)) >= MaxInstances
             THEN /\ tasks' = tasks
                  /\ outcome' = Plus(outcome, <<j.id, run, "max_instances">>)
             ELSE /\ tasks' = tasks \cup {Task(j, run)}
                  /\ outcome' = outcome
          /\ last' = Op("process_job", <<j.id, run, j.func, j.args>>)
    /\ UNCHANGED <<aux, now, dbvars, attempts>>

----------------------------------------------------------------------------
(* schedule_class_reminders: a driver run in a worker thread of the executor,
   which the event loop does not wait for *)

\* the operations `last` names the steps of a planning pass with
PlanningOps == {"planning", "schedule_class_reminders", "interleaved_planning"}

\* the record of a step of a pass no other step has come between: the run,
\* the job store and the operation the pass found when it was called; the
\* step the pass ends with is "schedule_class_reminders"
Planning(ctx, final, raised) ==
    [op |-> IF final THEN "schedule_class_reminders" ELSE "planning",
     args |-> <<ctx>>, raised |-> raised,
     prev |-> IF final /\ ctx.after = "schedule_class_reminders"
              THEN 1 ELSE 0]

\* the record of a step of the run: the step follows the step before it of
\* the same run when no other step has come between the steps so far
PlanningStep(task, final, raised) ==
    IF /\ last.op = "planning"
       /\ last.args[1].run = <<task.id, task.run_time>>
    THEN Planning(last.args[1], final, raised)
    ELSE [Op("interleaved_planning", <<>>) EXCEPT !.raised = raised]

\* where the run goes on after the current Schedule object: at the next
\* one, or at the end of the function
AfterSlot(task) ==
    IF Len(task.loc.schedules) > 1
    THEN [task EXCEPT !.pc = "slot", !.todo = <<>>,
                      !.loc.schedules = Tail(task.loc.schedules),
                      !.loc.add = {}]
    ELSE [task EXCEPT !.pc = "done"]

\* where the run goes on after the current member row
AfterMember(task) ==
    IF Len(task.todo) > 1
    THEN [task EXCEPT !.pc = "student", !.todo = Tail(task.todo),
                      !.loc.add = {}]
    ELSE AfterSlot(task)

\* the run goes on as `next`, or is over: the function has returned or has
\* raised
Proceed(task, next, raised) ==
    /\ tasks' = IF raised \/ next.pc = "done" THEN tasks \ {task}
                ELSE (tasks \ {task}) \cup {next}
    /\ last' = PlanningStep(task, raised \/ next.pc = "done", raised)

\* a pass that first drops the class jobs it finds in the store
DriverRunFresh(task) ==
    /\ task \in tasks
    /\ task.pc = "submitted"
    /\ task.func = "schedule_class_reminders"
    /\ ~Misfired(task)
    /\ outcome' = Plus(outcome, TaskOutcome(task, "invoked"))
    /\ jobs' = {j \in jobs : ~IsClassJob(j)}
    /\ \E ss \in Orders(PlannedSlots(now)) :
         LET next == [task EXCEPT
                        !.pc = IF PlannedSlots(now) = {} THEN "done"
                               ELSE "slot",
                        !.loc.now_utc = now,
                        !.loc.schedules =
                            [i \in DOMAIN ss |-> SlotObject(ss[i])]]
         IN /\ tasks' = IF next.pc = "done" THEN tasks \ {task}
                        ELSE (tasks \ {task}) \cup {next}
            /\ last' = Planning([run |-> <<task.id, task.run_time>>, store |-> jobs,
                                 after |-> last.op],
                                next.pc = "done", FALSE)
    /\ UNCHANGED <<aux, now, dbvars, attempts>>

\* run_job calls schedule_class_reminders for a submitted driver run that
\* is not late: now_utc is read and the Schedule rows of today and tomorrow
\* of active groups are loaded, in the order the query returns them, and
\* those without a meeting_link are dropped
DriverRun(task) ==
    /\ task \in tasks
    /\ task.pc = "submitted"
    /\ task.func = "schedule_class_reminders"
    /\ ~Misfired(task)
    /\ outcome' = Plus(outcome, TaskOutcome(task, "invoked"))
    /\ \E ss \in Orders(PlannedSlots(now)) :
         LET next == [task EXCEPT
                        !.pc = IF PlannedSlots(now) = {} THEN "done"
                               ELSE "slot",
                        !.loc.now_utc = now,
                        !.loc.schedules =
                            [i \in DOMAIN ss |-> SlotObject(ss[i])]]
         IN /\ tasks' = IF next.pc = "done" THEN tasks \ {task}
                        ELSE (tasks \ {task}) \cup {next}
            /\ last' = Planning([run |-> <<task.id, task.run_time>>, store |-> jobs,
                                 after |-> last.op],
                                next.pc = "done", FALSE)
    /\ UNCHANGED <<aux, now, jobs, dbvars, attempts>>

\* the loop over the Schedule objects comes to the next one: target_date,
\* item.group (loaded from the table unless the session holds the group;
\* None.teacher_id raises when the row is gone), the teacher query (continue
\* without a row) and class_time_utc in the zone of the teacher object
PlanSlot(task) ==
    /\ task \in tasks
    /\ task.pc = "slot"
    /\ LET item == Head(task.loc.schedules)
           g == item.group_id
           date == TargetDate(task.loc.now_utc, item)
           teacher == QueryUser(groups[g].teacher_id,
                                {task.loc.teacher, task.loc.student})
           here == [task EXCEPT !.loc.groups = task.loc.groups \cup {g},
                                !.loc.target_date = date,
                                !.loc.teacher = teacher]
       IN IF ~(g \in task.loc.groups \/ groups[g].exists)
          THEN Proceed(task, task, TRUE)
          ELSE IF teacher = NoUser
          THEN Proceed(task, AfterSlot(here), FALSE)
          ELSE Proceed(task,
                       [here EXCEPT
                          !.pc = "members",
                          !.loc.class_time_utc =
                              ClassTimeUtc(teacher.timezone, date,
                                           item.time_at)],
                       FALSE)
    /\ UNCHANGED <<aux, now, jobs, dbvars, attempts, outcome>>

\* the member query of the current Schedule object
PlanMembers(task) ==
    /\ task \in tasks
    /\ task.pc = "members"
    /\ LET ms == MembersOf(Head(task.loc.schedules).group_id)
       IN IF Len(ms) = 0
          THEN Proceed(task, AfterSlot(task), FALSE)
          ELSE Proceed(task, [task EXCEPT !.pc = "student", !.todo = ms],
                       FALSE)
    /\ UNCHANGED <<aux, now, jobs, dbvars, attempts, outcome>>

\* the loop over the member rows comes to the next one: the student query,
\* the reminder time and scheduler.get_job
PlanMember(task) ==
    /\ task \in tasks
    /\ task.pc = "student"
    /\ LET student == QueryUser(Head(task.todo),
                                {task.loc.teacher, task.loc.student})
           add == PlanStudent(jobs, task.loc.now_utc,
                              Head(task.loc.schedules),
                              task.loc.target_date,
                              task.loc.class_time_utc, student)
           here == [task EXCEPT !.loc.student = student]
       IN IF add = {}
          THEN Proceed(task, AfterMember(here), FALSE)
          ELSE Proceed(task, [here EXCEPT !.pc = "add_job", !.loc.add = add],
                       FALSE)
    /\ UNCHANGED <<aux, now, jobs, dbvars, attempts, outcome>>

\* an add_job of the loop without id=
PlanAddJobFreshId(task) ==
    /\ task \in tasks
    /\ task.pc = "add_job"
    /\ jobs' = AddJobFreshId(jobs, CHOOSE j \in task.loc.add : TRUE)
    /\ Proceed(task, AfterMember(task), FALSE)
    /\ UNCHANGED <<aux, now, dbvars, attempts, outcome>>

\* scheduler.add_job(..., id=job_id, replace_existing=True) of the loop
PlanAddJob(task) ==
    /\ task \in tasks
    /\ task.pc = "add_job"
    /\ jobs' = AddJob(jobs, CHOOSE j \in task.loc.add : TRUE)
    /\ Proceed(task, AfterMember(task), FALSE)
    /\ UNCHANGED <<aux, now, dbvars, attempts, outcome>>

----------------------------------------------------------------------------
(* The process of the driver runs *)

\* the fire times of the driver jobs up to the horizon
DriverMarks ==
    {DriverStart} \cup
    {t \in DriverStart .. Horizon : t % Hour = 0 \/ t % Day = 60}

\* time passes to the next fire time of a driver job, or second by second
\* up to MaxLate seconds past a fire time whose job or run is still waiting
DriverTick ==
    /\ last.op # "init"
    /\ LET next == {t + d : t \in DriverMarks, d \in 0 .. MaxLate}
           later == {t \in next : t > now}
       IN /\ later # {}
          /\ now' = CHOOSE t \in later : \A x \in later : t <= x
    /\ \A j \in jobs : IsDriverJob(j) => now' <= j.next_run_time + MaxLate
    /\ \A task \in tasks :
          task.pc = "submitted" => now' <= task.run_time + MaxLate
    /\ last' = Op("tick", <<>>)
    /\ UNCHANGED <<aux, jobs, tasks, dbvars, attempts, outcome>>

\* the process is about to call start_scheduler on Monday 22:30 UTC: the
\* teacher is in Moscow, the students are active and slot 1 is Tuesday 18:00
InitDriver ==
    /\ now = DriverStart
    /\ jobs = {}
    /\ tasks = {}
    /\ bot = {}
    /\ lost = {}
    /\ user_seq = NumStudents + 2
    /\ users = UsersInit("Europe/Moscow", StudentIds)
    /\ groups = [g \in GroupIds |->
                   [exists |-> TRUE, teacher_id |-> TeacherId,
                    is_active |-> TRUE]]
    /\ members \in MemberTables(StudentIds)
    /\ homework = [h \in HomeworkIds |->
                     [exists |-> TRUE, group_id |-> 1,
                      deadline |-> Due + Hour,
                      reminder_sent |-> TRUE]]
    /\ schedule = [s \in SlotIds |-> Slot("tuesday", 18 * Hour, Link)]
    /\ attempts = EmptyBag
    /\ outcome = EmptyBag
    /\ last = Op("init", <<>>)

----------------------------------------------------------------------------
(* Restart of the process *)

\* the clock readings at which the process comes up again: at once, or on
\* Tuesday 00:30 UTC
RestartTimes == {Start, Due, Due + 1, (Day0 + 1) * Day + 1800}

\* the process restarts and its clock reads t: scheduler = AsyncIOScheduler()
\* is built anew with an empty in-memory job store, the runs in progress
\* are gone, the database and the bot process are as they were
Restart(t) ==
    /\ t >= now
    /\ jobs # {}
    /\ now' = t
    /\ jobs' = {}
    /\ tasks' = {}
    /\ lost' = jobs
    /\ last' = Op("restart", <<>>)
    /\ UNCHANGED <<bot, user_seq, dbvars, attempts, outcome>>

\* slots of a Monday evening, of a Monday late evening and of the first
\* hour of a Tuesday
RestartSlots ==
    {Slot("monday", 18 * Hour, Link), Slot("monday", 22 * Hour, Link),
     Slot("tuesday", 1 * Hour, Link)}

\* the process is up on Monday 07:00 UTC with an empty store; the teacher is
\* east of, on, or west of UTC
InitRestart ==
    /\ InitCommon
    /\ jobs = {}
    /\ members \in MemberTables(StudentIds)
    /\ \E tz \in TeacherZones \cup {"America/New_York"} :
         users = UsersInit(tz, StudentIds)
    /\ schedule \in [SlotIds -> RestartSlots]

----------------------------------------------------------------------------
(* Specifications *)

\* the timer loop on the driver jobs and the steps of the planning passes
Planner ==
    \/ \E j \in jobs : ProcessDriverJob(j)
    \/ \E task \in tasks : DriverRun(task)
    \/ \E task \in tasks : PlanSlot(task)
    \/ \E task \in tasks : PlanMembers(task)
    \/ \E task \in tasks : PlanMember(task)
    \/ \E task \in tasks : PlanAddJob(task)

\* the reminder jobs of the running process: the homework planner calls,
\* the timer loop, the job functions and the requests that change what the
\* job functions read
Next ==
    \/ Tick
    \/ \E j \in jobs : ProcessJob(j)
    \/ \E task \in tasks : MissJob(task)
    \/ \E h \in HomeworkIds : \E d \in DeadlinesFor(h) :
         CallScheduleHomeworkReminder(h, d, homework[h].group_id)
    \/ \E h \in HomeworkIds : CallCancelHomeworkReminder(h)
    \/ \E g \in GroupIds, b \in BOOLEAN : UpdateGroupStatus(g, b)
    \/ \E g \in GroupIds : DeleteGroup(g)
    \/ \E task \in tasks : HomeworkJobStart(task)
    \/ \E task \in tasks, ok \in BOOLEAN : HomeworkJobResume(task, ok)
    \/ \E task \in tasks : ClassJobStart(task)
    \/ \E task \in tasks, ok \in BOOLEAN : ClassJobResume(task, ok)

Spec == Init /\ [][Next]_vars

\* the planning passes of 07:00 and 14:00 on their inputs, and the requests
\* on the group and on the membership of student 3, which are served
\* between the passes and between the steps of a pass
NextPlan ==
    \/ Tick
    \/ Planner
    \/ \E task \in tasks : MissJob(task)
    \/ \E g \in GroupIds, b \in BOOLEAN : UpdateGroupStatus(g, b)
    \/ \E g \in GroupIds : RemoveStudentFromGroup(g, 3)

SpecPlan == InitPlan /\ [][NextPlan]_vars

\* the homework reminders of a group: the timer loop and the fan-out of
\* every homework, with the requests on the group, on homework 1 and on
\* the membership of student 2
NextFanOut ==
    \/ Tick
    \/ \E j \in jobs : ProcessJob(j)
    \/ \E task \in tasks : MissJob(task)
    \/ \E d \in DeadlinesFor(1) : UpdateHomework(1, d)
    \/ DeleteHomework(1)
    \/ \E g \in GroupIds, b \in BOOLEAN : UpdateGroupStatus(g, b)
    \/ \E g \in GroupIds : DeleteGroup(g)
    \/ \E g \in GroupIds : RemoveStudentFromGroup(g, 2)
    \/ \E task \in tasks : HomeworkJobStart(task)
    \/ \E task \in tasks, ok \in BOOLEAN : HomeworkJobResume(task, ok)

SpecFanOut == InitFanOut /\ [][NextFanOut]_vars

\* the planning passes on rows with any zone names, and the profile
\* requests of the teacher
NextZones ==
    \/ Tick
    \/ Planner
    \/ \E task \in tasks : MissJob(task)
    \/ \E tz \in {"Europe/Moscow", "UTC", "Asia/Nowhere"} :
          UpdateProfile(TeacherId, tz)

SpecZones == InitZones /\ [][NextZones]_vars

\* the re-planning driver: start_scheduler, the timer loop on the driver
\* jobs and the planner runs
NextDriver ==
    \/ StartScheduler
    \/ DriverTick
    \/ Planner
    \/ \E task \in tasks : MissJob(task)

SpecDriver == InitDriver /\ [][NextDriver]_vars

\* the teacher has just created the homework rows; the user with the last
\* id has a row or has not logged in yet, and the students with a row are
\* the members, all of them active, or all but student 3
InitMembers ==
    /\ InitEntities
    /\ jobs = PlannedAtCreation({}, Start, HomeworkIds)
    /\ user_seq \in {NumStudents + 1, NumStudents + 2}
    /\ members \in MemberTables({u \in StudentIds : u < user_seq})
    /\ \E a \in {StudentIds, StudentIds \ {3}} :
         users = [u \in UserIds |->
                    IF u < user_seq THEN UsersInit("Europe/Moscow", a)[u]
                    ELSE [exists |-> FALSE, is_active |-> FALSE,
                          timezone |-> "UTC"]]
    /\ schedule = [s \in SlotIds |-> Slot("monday", 18 * Hour, "None")]

\* a homework fan-out while users log in, students join the group over the
\* API and over the bot, leave it and delete their account, and the
\* homework is deleted
NextMembers ==
    \/ Tick
    \/ \E j \in jobs : ProcessJob(j)
    \/ \E task \in tasks : MissJob(task)
    \/ DeleteHomework(1)
    \/ Login("UTC")
    \/ \E g \in GroupIds, u \in StudentIds : JoinGroup(g, u)
    \/ \E g \in GroupIds, u \in StudentIds : CmdStart(g, u)
    \/ \E g \in GroupIds, u \in StudentIds : CmdStartCommit(g, u)
    \/ \E g \in GroupIds, u \in StudentIds : RemoveStudentFromGroup(g, u)
    \/ \E u \in StudentIds : DeleteUser(u)
    \/ \E task \in tasks : HomeworkJobStart(task)
    \/ \E task \in tasks, ok \in BOOLEAN : HomeworkJobResume(task, ok)

SpecMembers == InitMembers /\ [][NextMembers]_vars

\* the planning passes of 14:00 on a store that holds driver jobs, homework
\* jobs and class jobs, between edits and deletions of the slots
NextFrame ==
    \/ Tick
    \/ Planner
    \/ \E task \in tasks : MissJob(task)
    \/ \E h \in HomeworkIds : \E d \in DeadlinesFor(h) :
         CallScheduleHomeworkReminder(h, d, homework[h].group_id)
    \/ \E s \in SlotIds :
         \/ MoveScheduleItem(s, "monday", 9 * Hour)
         \/ MoveScheduleItem(s, "monday", 20 * Hour)
         \/ MoveScheduleItem(s, "wednesday", 18 * Hour)
    \/ \E s \in SlotIds : DeleteScheduleItem(s)

SpecFrame == Init /\ [][NextFrame]_vars

\* the homework reminders of items that are neither edited nor deleted, in
\* a group that stays active, while students leave the group and delete
\* their account
NextLive ==
    \/ Tick
    \/ \E j \in jobs : ProcessJob(j)
    \/ \E task \in tasks : MissJob(task)
    \/ \E task \in tasks : HomeworkJobStart(task)
    \/ \E task \in tasks, ok \in BOOLEAN : HomeworkJobResume(task, ok)
    \/ \E g \in GroupIds : RemoveStudentFromGroup(g, 3)
    \/ DeleteUser(3)

\* the process keeps running: the clock goes on, the timer loop processes
\* every due job, and every submitted or suspended run is taken up
SpecLive ==
    /\ InitFanOut
    /\ [][NextLive]_vars
    /\ WF_vars(Tick)
    /\ WF_vars(\E j \in jobs : ProcessJob(j))
    /\ WF_vars(\E task \in tasks : MissJob(task))
    /\ WF_vars(\E task \in tasks : HomeworkJobStart(task))
    /\ WF_vars(\E task \in tasks, ok \in BOOLEAN :
                 HomeworkJobResume(task, ok))

\* the process with one restart after a time down, between planning passes
\* or in the middle of one: start_scheduler, the timer loop on the driver
\* jobs and the planning passes
NextRestart ==
    \/ Tick
    \/ \E t \in RestartTimes : t > now /\ lost = {} /\ Restart(t)
    \/ StartScheduler
    \/ Planner
    \/ \E task \in tasks : MissJob(task)

SpecRestart == InitRestart /\ [][NextRestart]_vars

\* the teacher has just created the homework rows; student 2 is the active
\* member, slot 1 is Monday 18:00 Moscow time with a link, the other slots
\* have none
InitLost ==
    /\ InitCommon
    /\ jobs = PlannedAtCreation({}, Start, HomeworkIds)
    /\ members \in MemberTables(StudentIds)
    /\ users = UsersInit("Europe/Moscow", {2})
    /\ schedule = [s \in SlotIds |->
                     IF s = 1 THEN Slot("monday", 18 * Hour, Link)
                     ELSE Slot("monday", 18 * Hour, "None")]

\* the process with one restart after a time down, between planning passes
\* or in the middle of one: start_scheduler and the planning passes, the
\* timer loop on the driver and homework jobs, the homework job function
\* and the deadline edits of homework 1
NextLost ==
    \/ Tick
    \/ \E t \in RestartTimes : t > now /\ lost = {} /\ Restart(t)
    \/ StartScheduler
    \/ Planner
    \/ \E j \in jobs : IsHwJob(j) /\ ProcessJob(j)
    \/ \E task \in tasks : MissJob(task)
    \/ \E task \in tasks : HomeworkJobStart(task)
    \/ \E task \in tasks, ok \in BOOLEAN : HomeworkJobResume(task, ok)
    \/ \E d \in Deadlines \ {Start + Hour} : UpdateHomework(1, d)

SpecLost == InitLost /\ [][NextLost]_vars

\* the meeting_link values a request may carry: a link, null, empty
LinkValues == {Link, "None", ""}

\* the hourly job of 07:00 is due: the teacher is in Moscow, student 2 is
\* the active member, slot 1 is Monday 18:00 with a link and the other
\* slots have no link
InitClass ==
    /\ InitCommon
    /\ jobs = DriverJobsAt(Start)
    /\ members \in MemberTables(StudentIds)
    /\ users = UsersInit("Europe/Moscow", {2})
    /\ schedule = [s \in SlotIds |->
                     IF s = 1 THEN Slot("monday", 18 * Hour, Link)
                     ELSE Slot("monday", 18 * Hour, "None")]

\* the class reminders of a group: the planning passes, the timer loop and
\* the job function, with the requests on the group and on the slots
NextClass ==
    \/ Tick
    \/ Planner
    \/ \E j \in jobs : ProcessJob(j)
    \/ \E task \in tasks : MissJob(task)
    \/ \E s \in SlotIds, l \in LinkValues : UpdateScheduleItem(s, l)
    \/ \E g \in GroupIds, b \in BOOLEAN : UpdateGroupStatus(g, b)
    \/ \E task \in tasks : ClassJobStart(task)
    \/ \E task \in tasks, ok \in BOOLEAN : ClassJobResume(task, ok)
    \/ \E g \in GroupIds : DeleteGroup(g)
    \/ \E g \in GroupIds : RemoveStudentFromGroup(g, 2)
    \/ DeleteUser(2)

SpecClass == InitClass /\ [][NextClass]_vars

----------------------------------------------------------------------------
(* Properties of the homework planner *)

JobsOf(J, id) == {j \in J : j.id = id}

\* C1 (P1, lead time): a call schedule_homework_reminder(h, D, g) made at
\* `now` leaves a job for h at D - 1h when D - 1h > now, and creates no job
\* when D - 1h <= now.
C1_LeadTime ==
    [][last'.op = "schedule_homework_reminder" =>
         LET h == last'.args[1]
             D == last'.args[2]
         IN IF D - 3600 > now
            THEN \E j \in jobs' : /\ j.id = HwJobId(h)
                                  /\ j.next_run_time = D - 3600
            ELSE jobs' \subseteq jobs]_vars

\* a call whose reminder instant lies ahead has just stored its job
C1_Witness ==
    /\ last.op = "schedule_homework_reminder"
    /\ last.args[2] - 3600 > now
    /\ \E j \in jobs : /\ j.id = HwJobId(last.args[1])
                       /\ j.next_run_time = last.args[2] - 3600

\* C2 (P2, idempotent upsert) as stated: whatever the two deadlines, after
\* the second call for a homework id that already has a job there is
\* exactly one job for the id, at the new deadline - 1h.
C2_Original ==
    [][(/\ last'.op = "schedule_homework_reminder"
        /\ HasJob(jobs, HwJobId(last'.args[1]))) =>
         /\ Cardinality(JobsOf(jobs', HwJobId(last'.args[1]))) = 1
         /\ \A j \in JobsOf(jobs', HwJobId(last'.args[1])) :
              j.next_run_time = last'.args[2] - 3600]_vars

\* C2 amended: a second call for a homework id that already has a job,
\* with a new deadline D' such that D' - 1h > now, leaves exactly one job
\* for the id, at D' - 1h; with D' - 1h <= now it leaves the store as it is.
C2_Upsert ==
    [][(/\ last'.op = "schedule_homework_reminder"
        /\ HasJob(jobs, HwJobId(last'.args[1]))) =>
         IF last'.args[2] - 3600 > now
         THEN /\ Cardinality(JobsOf(jobs', HwJobId(last'.args[1]))) = 1
              /\ \A j \in JobsOf(jobs', HwJobId(last'.args[1])) :
                   j.next_run_time = last'.args[2] - 3600
         ELSE jobs' = jobs]_vars

\* a second call has moved the job of the id from another run time
C2_Witness ==
    /\ last.op = "schedule_homework_reminder"
    /\ last.prev # 0
    /\ last.prev # last.args[2] - 3600
    /\ Cardinality(JobsOf(jobs, HwJobId(last.args[1]))) = 1
    /\ \A j \in JobsOf(jobs, HwJobId(last.args[1])) :
         j.next_run_time = last.args[2] - 3600

\* C3 (P3, cancel is safe): cancel_homework_reminder(h) never raises; with
\* no job pending for h it leaves the job store unchanged, otherwise it
\* removes the job of h and no other.
C3_CancelSafe ==
    [][last'.op = "cancel_homework_reminder" =>
         /\ ~last'.raised
         /\ jobs' = {j \in jobs : j.id # HwJobId(last'.args[1])}
         /\ (~HasJob(jobs, HwJobId(last'.args[1])) => jobs' = jobs)]_vars

\* a cancel for an id without a job, while another job is pending
C3_Witness ==
    /\ last.op = "cancel_homework_reminder"
    /\ last.prev = 0
    /\ ~last.raised
    /\ jobs # {}

----------------------------------------------------------------------------
(* Properties of the timer loop *)

\* the job instances the timer loop has processed: their run waits in the
\* executor, is in progress or has an outcome
Processed ==
    {<<t.id, t.run_time>> : t \in tasks} \cup
    {<<x[1], x[2]>> : x \in BagToSet(outcome)}

Waiting(i) == {t \in tasks : <<t.id, t.run_time>> = i /\ t.pc = "submitted"}

Invocations(i) == Count(outcome, <<i[1], i[2], "invoked">>)

Dropped(i) == Count(outcome, <<i[1], i[2], "missed">>) +
              Count(outcome, <<i[1], i[2], "max_instances">>)

\* C4 (P8) as stated: every processed job instance whose run no longer
\* waits in the executor has had its handler invoked exactly once.
C4_Original ==
    \A i \in Processed : Waiting(i) = {} => Invocations(i) = 1

\* C4 amended (at-most-once firing): a processed job instance is not in
\* the job store, neither while its run waits or is in progress nor
\* afterwards; its handler is invoked at most once; and its run is either
\* still waiting, or was invoked once, or was dropped once (started more
\* than misfire_grace_time late, or submitted while a run of the same id
\* was in progress), whatever upserts and cancels happen in between.
C4_AtMostOnce ==
    \A i \in Processed :
        /\ \A j \in jobs : Instance(j) # i
        /\ Invocations(i) <= 1
        /\ Cardinality(Waiting(i)) + Invocations(i) + Dropped(i) = 1

\* the handler of a homework job instance has been invoked, the run of a
\* class job instance was dropped, and a later job of the homework id is
\* pending after an upsert
C4_Witness ==
    /\ \E i \in Processed : i[1][1] = "homework_reminder"
                            /\ Invocations(i) = 1
                            /\ HasJob(jobs, i[1])
    /\ \E i \in Processed : i[1][1] = "class_reminder" /\ Dropped(i) = 1

----------------------------------------------------------------------------
(* Properties of the homework job function *)

\* C9 (P6, inactive group, firing): a call of send_homework_reminder_job
\* for an item whose group is inactive or no longer exists starts no
\* delivery to any student, does not raise and leaves reminder_sent (the
\* whole homework table) unchanged.
C9_InactiveGroupFiring ==
    [][(/\ last'.op = "send_homework_reminder_job"
        /\ LET g == last'.args[2]
           IN ~groups[g].exists \/ ~groups[g].is_active) =>
         /\ attempts' = attempts
         /\ homework' = homework
         /\ ~last'.raised]_vars

\* the job function has run for an unsent item of a paused group that
\* has an active member, and nothing was delivered
C9_Witness ==
    /\ last.op = "send_homework_reminder_job"
    /\ groups[last.args[2]].exists
    /\ ~groups[last.args[2]].is_active
    /\ homework[last.args[1]].exists
    /\ ~homework[last.args[1]].reminder_sent
    /\ \E u \in StudentIds : IsMember(last.args[2], u) /\ Eligible(u)
    /\ attempts = EmptyBag

----------------------------------------------------------------------------
(* Properties of the class planner *)

\* a planning pass ends with the step "schedule_class_reminders" when no
\* other step has come between its steps: the clock and the rows are then
\* those the pass was called on, and the job store it was called on is
Before == last'.args[1].store

\* the jobs the pass has created or replaced
Created == jobs' \ Before

\* the class jobs of a store
ClassJobs(J) == {j \in J : IsClassJob(j)}

\* the date a pass at `now` targets for slot s
TargetDateOf(s) == TargetDate(now, schedule[s])

\* the zone name of the teacher who owns slot s
TeacherZoneOf(s) == users[groups[schedule[s].group_id].teacher_id].timezone

\* the instant of wall-clock time (date, time_at) in zone tzname
WallInstant(tzname, date, time_at) ==
    Instant(Localize(ResolveZone(tzname), date, time_at))

\* C5 (P4, zone correctness): every class job a planning pass creates for
\* slot s, target date d and a student has the fire instant of (d, time_at
\* of s) read in the zone of the teacher, minus 1 hour, whatever the zone
\* of the student: two students of the slot get the same fire instant.
C5_ZoneCorrect ==
    [][last'.op = "schedule_class_reminders" =>
         /\ \A j \in Created :
              j.next_run_time =
                  WallInstant(TeacherZoneOf(j.id[2]), j.id[3],
                              schedule[j.id[2]].time_at) - 3600
         /\ \A j, k \in Created :
              (j.id[2] = k.id[2] /\ j.id[3] = k.id[3]) =>
                  j.next_run_time = k.next_run_time]_vars

\* a pass has planned slot 1 of a teacher in Moscow for the student in New
\* York and the student on UTC, both at the same instant
C5_Witness ==
    /\ last.op = "schedule_class_reminders"
    /\ TeacherZoneOf(1) = "Europe/Moscow"
    /\ \E j, k \in ClassJobs(jobs) :
         /\ j.id[2] = 1 /\ k.id[2] = 1
         /\ j.id[5] = 2 /\ k.id[5] = 3
         /\ users[2].timezone = "America/New_York"
         /\ users[3].timezone = "UTC"
         /\ j.next_run_time = k.next_run_time
         /\ j.next_run_time > now

\* the scenario of C6: teacher in Moscow, slot 1 on Monday 18:00 with a
\* link in an active group, student 2 active in New York, Monday 10:00
\* Moscow time
Scenario ==
    /\ users[TeacherId].timezone = "Europe/Moscow"
    /\ schedule[1] = Slot("monday", 18 * Hour, Link)
    /\ groups[1].exists /\ groups[1].is_active
    /\ Eligible(2) /\ users[2].timezone = "America/New_York"
    /\ DayOfDate(DateOf(now)) = "monday"
    /\ now = WallInstant("Europe/Moscow", DateOf(now), 10 * Hour)

\* the job of student 2 for slot 1 fires on the day of the pass at 17:00
\* by the clock of Moscow and at hour:00 by the clock of New York (UTC-4)
FiresAt(J, date, hour) ==
    \E j \in JobsOf(J, ClassJobId(1, date, 2)) :
       LET utc == Localize(0, 0, j.next_run_time)
           msk == AsTimezone(utc, 3 * Hour)
           nyc == AsTimezone(utc, 0 - 4 * Hour)
       IN /\ DateOf(msk.wall) = date
          /\ HourOfDay(msk.wall) = 17 /\ MinuteOfHour(msk.wall) = 0
          /\ DateOf(nyc.wall) = date
          /\ HourOfDay(nyc.wall) = hour /\ MinuteOfHour(nyc.wall) = 0

\* C6 as stated: in the scenario a planning pass leaves a job for the
\* student firing at 17:00 Moscow time, which is 09:00 in New York on the
\* same day.
C6_Original ==
    [][(last'.op = "schedule_class_reminders" /\ Scenario) =>
         FiresAt(jobs', DateOf(now), 9)]_vars

\* C6 amended: in the scenario a planning pass leaves a job for the student
\* firing at 17:00 Moscow time, which is 10:00 in New York (UTC-4) on the
\* same day.
C6_Scenario ==
    [][(last'.op = "schedule_class_reminders" /\ Scenario) =>
         FiresAt(jobs', DateOf(now), 10)]_vars

\* the pass of the scenario has run on a store without class jobs
C6_Witness ==
    /\ last.op = "schedule_class_reminders"
    /\ Scenario
    /\ ClassJobs(last.args[1].store) = {}
    /\ ClassJobs(jobs) =
             {Job(ClassJobId(1, DateOf(now), 2),
                   WallInstant("Europe/Moscow", DateOf(now), 17 * Hour),
                   "send_class_reminder_to_student_job", <<1, 2>>)}

\* the class start of slot s on its target date, by the teacher's clock
ClassStart(s) ==
    WallInstant(TeacherZoneOf(s), TargetDateOf(s), schedule[s].time_at)

\* C7 (P5, past-occurrence suppression): a planning pass run at `now`
\* creates or replaces no job, for any student, for the occurrence of a
\* slot whose class start is <= now or whose reminder instant (class start
\* - 1h) is <= now, also when the slot's day is today.
C7_PastSuppressed ==
    [][last'.op = "schedule_class_reminders" =>
         \A s \in SlotIds, u \in StudentIds :
            (schedule[s].exists /\
             (ClassStart(s) <= now \/ ClassStart(s) - 3600 <= now)) =>
                JobsOf(jobs', ClassJobId(s, TargetDateOf(s), u)) =
                JobsOf(Before, ClassJobId(s, TargetDateOf(s), u))]_vars

\* a pass has run at the reminder instant of today's occurrence of slot 1,
\* whose class has not started, with an active group, a link and an active
\* student, and has planned nothing
C7_Witness ==
    /\ last.op = "schedule_class_reminders"
    /\ schedule[1].day_of_week = DayOfDate(DateOf(now))
    /\ HasLink(schedule[1])
    /\ groups[1].exists /\ groups[1].is_active
    /\ Eligible(2)
    /\ ClassStart(1) - 3600 = now
    /\ ClassJobs(jobs) = {}

\* C8 (P6, inactive group, planning): a planning pass creates or replaces
\* no class job for a slot whose group is inactive at the time of the
\* pass, whatever the slot's day, link and members.
C8_InactiveGroupPlanning ==
    [][last'.op = "schedule_class_reminders" =>
         \A s \in SlotIds :
            (schedule[s].exists /\ ~groups[schedule[s].group_id].is_active)
               => {j \in jobs' : IsClassJob(j) /\ j.args[1] = s} =
                  {j \in Before : IsClassJob(j) /\ j.args[1] = s}]_vars

\* a pass has run while the group of slot 1 was paused, the slot being
\* today's, with a link, an active student and its reminder ahead, and
\* has planned nothing
C8_Witness ==
    /\ last.op = "schedule_class_reminders"
    /\ groups[1].exists /\ ~groups[1].is_active
    /\ schedule[1].day_of_week = DayOfDate(DateOf(now))
    /\ HasLink(schedule[1])
    /\ Eligible(2)
    /\ ClassStart(1) - 3600 > now
    /\ ClassJobs(jobs) = {}

\* C10 (P7, re-planning idempotence): a planning pass that immediately
\* follows another (same clock reading, no entity change, no job fired)
\* leaves the pending job keys and their fire instants as the first pass
\* left them.
C10_Idempotent ==
    [][(last'.op = "schedule_class_reminders" /\ last'.prev = 1) =>
         {Instance(j) : j \in jobs'} = {Instance(j) : j \in Before}]_vars

\* a second pass in succession has run on a store that holds the jobs of
\* students 2 and 3 for today's occurrence of slot 1
C10_Witness ==
    /\ last.op = "schedule_class_reminders"
    /\ last.prev = 1
    /\ \E j, k \in jobs :
         /\ j.id = ClassJobId(1, DateOf(now), 2)
         /\ k.id = ClassJobId(1, DateOf(now), 3)
         /\ j.next_run_time = k.next_run_time
    /\ Cardinality(ClassJobs(jobs)) = 2

----------------------------------------------------------------------------
(* Properties of the dispatch under requests *)

\* the group whose members the job function of the step just taken serves:
\* the group_id argument of a homework job, the group of the slot of a
\* class job
ServedGroup ==
    IF last'.op \in {"send_class_reminder_to_student_job"}
    THEN schedule[last'.args[1]].group_id
    ELSE last'.args[2]

\* C11 (paused group means no notifications): every delivery, homework or
\* class, is started at a moment when the group's is_active is true, also
\* for the later recipients of a homework fan-out that started while the
\* group was active.
C11_PausedNoDelivery ==
    [][attempts' # attempts =>
         (groups[ServedGroup].exists => groups[ServedGroup].is_active)]_vars

\* C12 (a pending homework job refers to an existing item): in every
\* reachable state the homework row of every homework job in the store
\* exists, because whatever removes the row (delete_homework, the cascade
\* of delete_group) cancels the job as well.
C12_JobItemExists ==
    \A j \in jobs : IsHwJob(j) => homework[j.args[1]].exists

\* C13 (reminder_sent is set once): no operation (edit, plan, cancel, job
\* run, delete) sets reminder_sent of a homework item back from true to
\* false, so it goes from false to true at most once.
C13_SentOnce ==
    [][\A h \in HomeworkIds :
          homework[h].reminder_sent => homework'[h].reminder_sent]_vars

\* the deadline of an item whose reminder was sent has been edited, and
\* reminder_sent is still true
C13_Witness ==
    /\ last.op = "update_homework"
    /\ homework[last.args[1]].exists
    /\ homework[last.args[1]].reminder_sent
    /\ homework[last.args[1]].deadline = Due + Hour + 1
    /\ attempts # EmptyBag

\* C14 (a slot with no meeting link produces no class reminders): a
\* planning pass creates or replaces no job for a slot whose meeting_link
\* is null or empty, and no class reminder delivery is started for a slot
\* whose meeting_link is null or empty at that moment, also when the link
\* was removed after a job for the slot had been planned.
C14_NoLinkNoReminder ==
    [][/\ last'.op = "schedule_class_reminders" =>
            \A s \in SlotIds :
               (schedule[s].exists /\ ~HasLink(schedule[s])) =>
                   {j \in jobs' : IsClassJob(j) /\ j.args[1] = s} =
                   {j \in Before : IsClassJob(j) /\ j.args[1] = s}
       /\ (last'.op = "send_class_reminder_to_student_job"
           /\ attempts' # attempts) =>
              HasLink(schedule[last'.args[1]])]_vars

----------------------------------------------------------------------------
(* Properties of the class planner on unknown zone names *)

\* the UTC offset the planner is to use for a zone name: that of the zone,
\* or 0 (UTC) for a name that is no zone
OffsetOrUtc(name) ==
    IF name \in KnownZones THEN UtcOffset(name) ELSE 0

\* the reminder instant of slot s for the date the pass at `now` targets
ExpectedReminder(s) ==
    TargetDateOf(s) * 86400 + schedule[s].time_at
        - OffsetOrUtc(TeacherZoneOf(s)) - 3600

\* slot s and student u are planned by a pass at `now`: slot of today or
\* tomorrow with a link in an active group, active member, reminder ahead
Plannable(s, u) ==
    /\ s \in PlannedSlots(now)
    /\ IsMember(schedule[s].group_id, u)
    /\ Eligible(u)
    /\ ExpectedReminder(s) > now

\* C15 (time-zone fail-soft): a planning pass over rows in which the
\* teacher or a student carries a name that is no zone does not raise;
\* the name counts as UTC, so that every job the pass creates is at the
\* slot's time read in the teacher's zone (UTC for a bad name) minus 1h,
\* and every plannable slot and student, with a bad name or without, has
\* its job after the pass.
C15_ZoneFailSoft ==
    [][last'.op = "schedule_class_reminders" =>
         /\ ~last'.raised
         /\ \A j \in Created :
              /\ j.next_run_time = ExpectedReminder(j.id[2])
              /\ Plannable(j.id[2], j.id[5])
         /\ \A s \in SlotIds, u \in StudentIds :
              Plannable(s, u) =>
                 \E j \in JobsOf(jobs', ClassJobId(s, TargetDateOf(s), u)) :
                    Abs(j.next_run_time - ExpectedReminder(s)) < 60]_vars

\* a pass has planned slot 1 of a teacher whose zone name is no zone for a
\* student whose zone name is no zone and for a student in New York, both
\* at the slot's time read as UTC minus 1h
C15_Witness ==
    /\ last.op = "schedule_class_reminders"
    /\ ~(TeacherZoneOf(1) \in KnownZones)
    /\ \E u, v \in StudentIds :
         /\ users[u].timezone = "Not/AZone"
         /\ users[v].timezone = "America/New_York"
         /\ \E j, k \in jobs :
              /\ j.id = ClassJobId(1, TargetDateOf(1), u)
              /\ k.id = ClassJobId(1, TargetDateOf(1), v)
              /\ j.next_run_time =
                    TargetDateOf(1) * 86400 + schedule[1].time_at - 3600
              /\ k.next_run_time = j.next_run_time


----------------------------------------------------------------------------
(* C16: the re-planning driver *)

\* the runs start_scheduler plans up to the horizon: the immediate one, one
\* on every hour and one at 00:01
DriverRuns ==
    {<<InitialId, DriverStart>>} \cup
    {<<HourlyId, t>> : t \in {x \in DriverStart .. Horizon : x % Hour = 0}} \cup
    {<<DailyId, t>> : t \in {x \in DriverStart .. Horizon : x % Day = 60}}

\* the scheduler has started and the run i can no longer be waiting
Elapsed(i) == last.op # "init" /\ i[2] + MaxLate < now

\* some driver run with a fire time in a .. b has called the planner
InvokedIn(a, b) ==
    \E x \in BagToSet(outcome) :
        x[1] \in DriverIds /\ x[3] = "invoked" /\ x[2] \in a .. b

\* C16 as stated: the planner is invoked at least once in every one-hour
\* window of the running process (here the windows that open MaxLate seconds
\* after a fire time and have wholly passed).
C16_Original ==
    \A m \in DriverMarks :
        (last.op # "init" /\ m + MaxLate + Hour + MaxLate < now)
            => InvokedIn(m + MaxLate - MisfireGrace, m + MaxLate + Hour)

\* C16 amended: once started, the store holds exactly one daily and one
\* hourly driver job and at most one initial job, under their three fixed
\* keys; a run is planned for the start, for every hour on the hour and for
\* 00:01, no other run happens, and every planned run whose time has passed
\* has either called the planner exactly once or was dropped (late start or
\* an instance still running), never both and never twice.
C16_Driver ==
    /\ \A j \in jobs : IsDriverJob(j) => j.id \in DriverIds
    /\ \A id \in DriverIds : Cardinality({j \in jobs : j.id = id}) <= 1
    /\ last.op # "init" =>
          /\ \E j \in jobs : j.id = HourlyId /\ j.next_run_time % Hour = 0
                             /\ j.next_run_time <= now + Hour
          /\ \E j \in jobs : j.id = DailyId /\ j.next_run_time % Day = 60
                             /\ j.next_run_time <= now + Day
    /\ \A i \in Processed : i \in DriverRuns /\ Invocations(i) + Dropped(i) <= 1
    /\ \A i \in DriverRuns :
          Elapsed(i) => /\ Waiting(i) = {}
                        /\ Invocations(i) + Dropped(i) = 1

\* C16 witness: the immediate run, the 23:00 run and the 00:01 run have
\* called the planner, and the 00:00 run was dropped.
C16_Witness ==
    /\ Invocations(<<InitialId, DriverStart>>) = 1
    /\ Invocations(<<HourlyId, Day0 * Day + 23 * Hour>>) = 1
    /\ Dropped(<<HourlyId, (Day0 + 1) * Day>>) = 1
    /\ Invocations(<<DailyId, (Day0 + 1) * Day + 60>>) = 1
    /\ Elapsed(<<DailyId, (Day0 + 1) * Day + 60>>)

----------------------------------------------------------------------------
(* C17: self-healing after the loss of the job store *)

\* C17: the planning pass that follows a restart puts back every class
\* reminder job the restart lost whose reminder instant is still ahead,
\* under the same key and with the same fire-instant, whatever the zone
\* offset of the teacher.
C17_SelfHealing ==
    [][last'.op = "schedule_class_reminders" =>
         \A j \in lost :
             (IsClassJob(j) /\ j.next_run_time > now) => j \in jobs']_vars

----------------------------------------------------------------------------
(* C18: lazy invalidation *)

\* C18: a status update of a group leaves the job store as it was, and a
\* homework job function that is called while the group is active and the
\* item is unsent attempts a delivery when the group has a deliverable
\* member, whatever status updates came before.
C18_LazyInvalidation ==
    [][/\ last'.op = "update_group_status" => jobs' = jobs
       /\ (/\ last'.op = "send_homework_reminder_job"
           /\ ~HomeworkJobReturns(last'.args[1], last'.args[2])
           /\ SkipIneligible(MembersOf(last'.args[2])) # <<>>)
             => attempts' # attempts]_vars

\* C18 witness: group 1 has just been paused and the reminder of homework 1
\* is still queued for its fire-instant, which is ahead.
C18_Witness ==
    /\ last.op = "update_group_status"
    /\ last.args = <<1, FALSE>>
    /\ ~groups[1].is_active
    /\ \E j \in jobs : j.id = HwJobId(1) /\ j.next_run_time = Due /\ now < Due

----------------------------------------------------------------------------
(* C19: the homework fan-out *)

Range(seq) == {seq[i] : i \in DOMAIN seq}

\* the students a delivery of homework h has been attempted to
Delivered(A, h) ==
    {u \in StudentIds : Count(A, Delivery("homework", h, u)) > 0}

\* this step ends the fan-out of run t: the function had passed its checks
\* and the run is gone after the step
FanOutEnds(t) ==
    /\ t.func = "send_homework_reminder_job"
    /\ last'.op \in {"send_homework_reminder_job", "homework_delivery_done",
                     "homework_delivery_failed"}
    /\ last'.args = t.args
    /\ t.pc = "submitted" => ~HomeworkJobReturns(t.args[1], t.args[2])
    /\ ~\E x \in tasks' : x.id = t.id /\ x.run_time = t.run_time

\* C19 as stated: when the fan-out of a homework job ends, a delivery has
\* been attempted to exactly the members that were active when the job
\* fired, and reminder_sent of the item is true.
C19_Original ==
    [][\A t \in tasks : FanOutEnds(t) =>
          /\ Delivered(attempts', t.args[1]) = Range(AtFire(t))
          /\ homework'[t.args[1]].exists
          /\ homework'[t.args[1]].reminder_sent]_vars

\* C19 amended: when the fan-out ends, a delivery has been attempted to no
\* one but members that were active when the job fired, and to each of them
\* whose student row is still there; reminder_sent is true if the item is
\* still there.
C19_FanOut ==
    [][\A t \in tasks : FanOutEnds(t) =>
          /\ Delivered(attempts', t.args[1]) \subseteq Range(AtFire(t))
          /\ \A u \in Range(AtFire(t)) :
                users'[u].exists => u \in Delivered(attempts', t.args[1])
          /\ homework'[t.args[1]].exists
                => homework'[t.args[1]].reminder_sent]_vars

\* C19 witness: the fan-out of homework 1 has ended with reminder_sent set
\* and deliveries to students 2 and 3, of whom 3 has left the group since
\* the job fired.
C19_Witness ==
    /\ last.op \in {"homework_delivery_done", "homework_delivery_failed"}
    /\ tasks = {}
    /\ homework[1].exists /\ homework[1].reminder_sent
    /\ Delivered(attempts, 1) = {2, 3}
    /\ ~IsMember(1, 3)

----------------------------------------------------------------------------
(* C20: a failed delivery *)

\* C20: after a failed send of a homework fan-out the loop goes on as after
\* a successful one: the next deliverable member gets an attempt, past the
\* last member reminder_sent is set, and the run does not raise (the commit
\* alone fails, when the item was deleted meanwhile).
C20_FailureIsolated ==
    [][last'.op = "homework_delivery_failed" =>
         \A t \in tasks :
            (t.pc = "sending" /\ t.args = last'.args) =>
               LET h == t.args[1]
                   rest == SkipIneligible(t.todo)
               IN /\ rest # <<>> =>
                        /\ attempts' =
                             Plus(attempts, Delivery("homework", h, Head(rest)))
                        /\ \E x \in tasks' : x.id = t.id /\ x.pc = "sending"
                                             /\ x.todo = Tail(rest)
                  /\ (rest = <<>> /\ homework[h].exists) =>
                        homework'[h].reminder_sent
                  /\ last'.raised => (rest = <<>> /\ ~homework[h].exists)]_vars

\* C20 witness: the send to student 2 has failed and the reminder of
\* homework 1 is on its way to student 3.
C20_Witness ==
    /\ last.op = "homework_delivery_failed"
    /\ Delivered(attempts, 1) = {2, 3}
    /\ \E t \in tasks : t.pc = "sending" /\ t.args[1] = 1

----------------------------------------------------------------------------
(* C21: duplicate fires of a homework job *)

\* C21: no student is sent the reminder of a homework item more than once,
\* also when the job function runs twice for the item or a re-planned job of
\* the item comes due while a run is suspended in a send.  The loop of the
\* job function sends per member row, and join_group racing with /start
\* leaves two rows of one (group, student): the student is sent twice.
C21_DeliveredOnce ==
    \A h \in HomeworkIds, u \in UserIds :
        Count(attempts, Delivery("homework", h, u)) <= 1

----------------------------------------------------------------------------
(* C22: the homework edit flow *)

\* C22: after update_homework has changed the deadline of item h to D', the
\* store holds a job for h if and only if D' - 1h > now, that job is single
\* and fires at D' - 1h (so none is left at the old instant), and the jobs of
\* other keys are as before; a request that does not change the deadline
\* leaves the store unchanged.
C22_EditFlow ==
    [][last'.op = "update_homework" =>
         LET h == last'.args[1]
             D == last'.args[2]
         IN IF D # homework[h].deadline
            THEN /\ JobsOf(jobs', HwJobId(h)) # {} <=> D - Lead > now
                 /\ Cardinality(JobsOf(jobs', HwJobId(h))) <= 1
                 /\ \A j \in JobsOf(jobs', HwJobId(h)) :
                       j.next_run_time = D - Lead
                 /\ {j \in jobs' : j.id # HwJobId(h)} =
                      {j \in jobs : j.id # HwJobId(h)}
            ELSE jobs' = jobs]_vars

\* C22 witness: an edit has moved the deadline of an item whose job was
\* pending at another instant, and the job now fires one hour before the
\* new deadline, which is ahead.
C22_Witness ==
    /\ last.op = "update_homework"
    /\ last.prev # 0
    /\ last.prev # last.args[2] - Lead
    /\ last.args[2] - Lead > now
    /\ \E j \in jobs : /\ j.id = HwJobId(last.args[1])
                       /\ j.next_run_time = last.args[2] - Lead

----------------------------------------------------------------------------
(* C23: the postcondition of a planning pass *)

\* the jobs of the key of slot s, the date the pass targets, and student u
PlannedJobs(J, s, u) == JobsOf(J, ClassJobId(s, TargetDateOf(s), u))

\* C23 as stated: after a pass, every plannable slot and student has exactly
\* one job under its key, with payload (slot, student), at class start - 1h,
\* and the pass has created no job for anything else.
C23_Original ==
    [][last'.op = "schedule_class_reminders" =>
         /\ \A s \in SlotIds, u \in StudentIds :
               Plannable(s, u) =>
                  /\ Cardinality(PlannedJobs(jobs', s, u)) = 1
                  /\ \A j \in PlannedJobs(jobs', s, u) :
                        /\ j.args = <<s, u>>
                        /\ j.next_run_time = ExpectedReminder(s)
         /\ \A j \in Created : Plannable(j.id[2], j.id[5])]_vars

\* C23 amended: as stated, except that a job that was pending under the key
\* before the pass at less than 60 seconds from class start - 1h is the one
\* job of the key after the pass, at its own fire-instant.
C23_Postcondition ==
    [][last'.op = "schedule_class_reminders" =>
         /\ \A s \in SlotIds, u \in StudentIds :
               Plannable(s, u) =>
                  /\ Cardinality(PlannedJobs(jobs', s, u)) = 1
                  /\ \A j \in PlannedJobs(jobs', s, u) :
                        /\ j.args = <<s, u>>
                        /\ \/ j.next_run_time = ExpectedReminder(s)
                           \/ /\ j \in Before
                              /\ Abs(j.next_run_time - ExpectedReminder(s))
                                    < Tolerance
         /\ \A j \in Created :
               /\ Plannable(j.id[2], j.id[5])
               /\ j.id[3] = TargetDateOf(j.id[2])]_vars

\* C23 witness: a pass has planned slot 1 for student 2 at class start - 1h
\* and has planned nothing for student 3, who is active and has left the
\* group.
C23_Witness ==
    /\ last.op = "schedule_class_reminders"
    /\ 1 \in PlannedSlots(now)
    /\ Eligible(2) /\ Eligible(3)
    /\ ~IsMember(1, 3)
    /\ \E j \in jobs : /\ j.id = ClassJobId(1, TargetDateOf(1), 2)
                       /\ j.next_run_time = ExpectedReminder(1)
                       /\ j.next_run_time > now
    /\ \A j \in ClassJobs(jobs) : j.id[5] # 3

----------------------------------------------------------------------------
(* C24: the tolerance of the idempotency check *)

\* C24: when a pass comes to a slot and student whose key already has a job,
\* the job stays as it is if its fire-instant is less than 60 seconds from
\* the reminder instant the pass computes, and otherwise the key has the
\* job at the computed instant after the pass.
C24_Tolerance ==
    [][last'.op = "schedule_class_reminders" =>
         \A s \in SlotIds, u \in StudentIds :
            Plannable(s, u) =>
               \A old \in PlannedJobs(Before, s, u) :
                  IF Abs(old.next_run_time - ExpectedReminder(s)) < Tolerance
                  THEN PlannedJobs(jobs', s, u) = {old}
                  ELSE /\ Cardinality(PlannedJobs(jobs', s, u)) = 1
                       /\ \A j \in PlannedJobs(jobs', s, u) :
                             j.next_run_time = ExpectedReminder(s)]_vars

\* C24 witness: after a pass the job of slot 1 and student 2 is still 30
\* seconds after the reminder instant the pass computes for them.
C24_Witness ==
    /\ last.op = "schedule_class_reminders"
    /\ Plannable(1, 2)
    /\ \E j \in PlannedJobs(jobs, 1, 2) :
          j.next_run_time = ExpectedReminder(1) + 30

----------------------------------------------------------------------------
(* C25: the class job function *)

\* C25: a call of the class job function attempts one delivery to its
\* student when the slot, its group and the student are there and group and
\* student are active, and none otherwise; neither the call nor the return
\* or failure of the send raises, attempts anything more, or writes a row.
C25_Revalidation ==
    [][/\ last'.op = "send_class_reminder_to_student_job" =>
            LET s == last'.args[1]
                u == last'.args[2]
                valid == /\ schedule[s].exists
                         /\ groups[schedule[s].group_id].exists
                         /\ groups[schedule[s].group_id].is_active
                         /\ Eligible(u)
            IN /\ attempts' = IF valid
                              THEN Plus(attempts, Delivery("class", s, u))
                              ELSE attempts
               /\ ~last'.raised
               /\ UNCHANGED dbvars
       /\ last'.op \in {"class_delivery_done", "class_delivery_failed"} =>
            /\ attempts' = attempts
            /\ ~last'.raised
            /\ UNCHANGED dbvars]_vars

\* C25 witness: the job function of slot 1 was called for student 2 after
\* the student's row was deleted, and nothing has been sent.
C25_Witness ==
    /\ last.op = "send_class_reminder_to_student_job"
    /\ last.args = <<1, 2>>
    /\ schedule[1].exists /\ groups[1].exists /\ groups[1].is_active
    /\ ~users[2].exists
    /\ attempts = EmptyBag

----------------------------------------------------------------------------
(* C26: class reminders and membership *)

\* C26: a call of the class job function attempts a delivery only to a
\* student who is a member of the slot's group at that moment.
C26_MembersOnly ==
    [][(/\ last'.op = "send_class_reminder_to_student_job"
        /\ attempts' # attempts) =>
          IsMember(schedule[last'.args[1]].group_id, last'.args[2])]_vars

----------------------------------------------------------------------------
(* C27: a planning pass removes nothing *)

\* C27: no step of a planning pass takes a key out of the store, and after
\* a pass every job of the store the pass was called on is still there
\* under its key: as it was, or, for a class job of a slot and student the
\* pass plans for the job's date, at the reminder instant the pass
\* computes. So homework and driver jobs, and class jobs of slots that are
\* deleted, on another day or past their reminder instant, are as they were.
C27_NoRemoval ==
    [][/\ last'.op \in PlanningOps =>
            \A j \in jobs : \E k \in jobs' : k.id = j.id
       /\ last'.op = "schedule_class_reminders" =>
         \A j \in Before :
            \/ j \in jobs'
            \/ /\ IsClassJob(j)
               /\ Plannable(j.id[2], j.id[5])
               /\ j.id[3] = TargetDateOf(j.id[2])
               /\ PlannedJobs(jobs', j.id[2], j.id[5]) =
                    {[j EXCEPT !.next_run_time = ExpectedReminder(j.id[2])]}]_vars

\* C27 witness: after a pass the store still holds the hourly driver job, a
\* homework job, and a class job of slot 1, which has been deleted.
C27_Witness ==
    /\ last.op = "schedule_class_reminders"
    /\ ~schedule[1].exists
    /\ \E j \in jobs : j.id = HourlyId
    /\ \E j \in jobs : IsHwJob(j)
    /\ \E j \in jobs : IsClassJob(j) /\ j.id[2] = 1

----------------------------------------------------------------------------
(* C28: firings after the reminder was sent *)

\* C28: an edit that moves the deadline of an item to D' with D' - 1h ahead
\* plans a job at D' - 1h also when the reminder of the item was sent; a
\* call of the job function for an item whose reminder_sent is true attempts
\* no delivery, writes no row and does not raise, and no step at all
\* attempts a delivery for such an item.
C28_SentIsFinal ==
    [][/\ (/\ last'.op = "update_homework"
           /\ homework[last'.args[1]].reminder_sent
           /\ last'.args[2] # homework[last'.args[1]].deadline
           /\ last'.args[2] - Lead > now) =>
             \E j \in jobs' : /\ j.id = HwJobId(last'.args[1])
                              /\ j.next_run_time = last'.args[2] - Lead
       /\ (/\ last'.op = "send_homework_reminder_job"
           /\ homework[last'.args[1]].reminder_sent) =>
             /\ attempts' = attempts
             /\ UNCHANGED dbvars
             /\ ~last'.raised
       /\ \A h \in HomeworkIds, u \in UserIds :
             homework[h].reminder_sent =>
                Count(attempts', Delivery("homework", h, u)) =
                Count(attempts, Delivery("homework", h, u))]_vars

\* C28 witness: the reminder of homework 1 was sent, an edit has moved its
\* deadline, and the job planned by the edit has fired and called the job
\* function, which has returned.
C28_Witness ==
    /\ last.op = "send_homework_reminder_job"
    /\ last.args[1] = 1
    /\ homework[1].exists /\ homework[1].reminder_sent
    /\ homework[1].deadline = Due + Hour + 1
    /\ Invocations(<<HwJobId(1), Due + 1>>) = 1
    /\ Delivered(attempts, 1) # {}
    /\ tasks = {}

----------------------------------------------------------------------------
(* C29: liveness of the homework reminder *)

\* C29 as stated: the job of every item planned at its creation eventually
\* fires: reminder_sent becomes true and no job of the item stays pending,
\* and the fan-out has gone to exactly the members active at the fire.
C29_Original ==
    /\ \A h \in HomeworkIds :
          <>(homework[h].reminder_sent /\ ~HasJob(jobs, HwJobId(h)))
    /\ [][\A t \in tasks : FanOutEnds(t) =>
            Delivered(attempts', t.args[1]) = Range(AtFire(t))]_vars

\* the job of item h planned at creation is out of the store and its run is
\* over: dropped, or called with reminder_sent set since
Settled(h) ==
    /\ ~HasJob(jobs, HwJobId(h))
    /\ Running(HwJobId(h)) = {}
    /\ \/ Dropped(<<HwJobId(h), Due>>) = 1
       \/ Invocations(<<HwJobId(h), Due>>) = 1 /\ homework[h].reminder_sent

\* C29 amended: the job of every item eventually leaves the store, and its
\* run is either dropped (started more than 1 s late) or called, and then
\* reminder_sent becomes true after a fan-out to no one but the members
\* active at the fire, and to each of them whose student row is still there.
C29_Liveness ==
    /\ \A h \in HomeworkIds : <>Settled(h)
    /\ [][\A t \in tasks : FanOutEnds(t) =>
            /\ Delivered(attempts', t.args[1]) \subseteq Range(AtFire(t))
            /\ \A u \in Range(AtFire(t)) :
                  users'[u].exists => u \in Delivered(attempts', t.args[1])
            /\ homework'[t.args[1]].reminder_sent]_vars

\* C29 witness: the job of homework 1 has fired on time, the reminder has
\* gone to students 2 and 3, reminder_sent is true and nothing is pending
\* or running.
C29_Witness ==
    /\ Settled(1)
    /\ Invocations(<<HwJobId(1), Due>>) = 1
    /\ homework[1].reminder_sent
    /\ Delivered(attempts, 1) = {2, 3}
    /\ jobs = {} /\ tasks = {}

----------------------------------------------------------------------------
(* C30: homework jobs are not reconstructed on restart *)

\* homework h has no job and no run, and its reminder_sent is false
Lost(J, T, H, h) ==
    /\ ~HasJob(J, HwJobId(h))
    /\ {t \in T : t.id = HwJobId(h)} = {}
    /\ ~H[h].reminder_sent

\* the step calls schedule_homework_reminder for h: a deadline edit that
\* changes the deadline
Replans(h) ==
    /\ last'.op = "update_homework"
    /\ last'.args[1] = h
    /\ last'.args[2] # homework[h].deadline

\* C30: a restart leaves no homework job; start_scheduler and a planning
\* pass add only driver jobs and class jobs; and while homework h has no
\* job, no run and reminder_sent false, every step but a deadline edit that
\* re-plans it leaves it so and attempts no delivery of its reminder.
C30_NotReconstructed ==
    [][/\ last'.op = "restart" => ~\E j \in jobs' : IsHwJob(j)
       /\ last'.op \in {"start_scheduler"} \cup PlanningOps =>
             \A j \in jobs' \ jobs : IsDriverJob(j) \/ IsClassJob(j)
       /\ \A h \in HomeworkIds :
             Lost(jobs, tasks, homework, h) /\ ~Replans(h) =>
                /\ Lost(jobs', tasks', homework', h)
                /\ Delivered(attempts', h) = Delivered(attempts, h)]_vars

\* C30 witness: the job of homework 1 was lost in a restart before its
\* fire-instant; the process has started again, a pass has planned class
\* jobs next to the driver jobs, the fire-instant has passed, and homework 1
\* has no job, no reminder and reminder_sent false.
C30_Witness ==
    /\ now > Due
    /\ Lost(jobs, tasks, homework, 1)
    /\ <<HwJobId(1), Due>> \notin Processed
    /\ Delivered(attempts, 1) = {}
    /\ \E j \in jobs : IsDriverJob(j)
    /\ \E j \in jobs : IsClassJob(j)
====
